---- MODULE Spec2Model ----
(***************************************************************************)
(* The blog API.                                                           *)
(* Authentication and verification: POST /auth/login, POST /auth/refresh,  *)
(*   POST /auth/logout, GET /auth/verify, the register hook, and the       *)
(*   current-user gate.  Tokens are modelled by what the JWT codec puts in *)
(*   them (sub, email, aud, exp, signing key); the clock counts seconds.   *)
(* Posts and comments: the /posts and /comments routers with their         *)
(*   ownership guard and the media cleanup of utils.py.                    *)
(* The admin panel: the session login of AdminAuthBackend.                 *)
(* Overlapping requests: the handlers step by step, from one await to the  *)
(*   next, each inside the session scope of get_db_session.                *)
(***************************************************************************)
EXTENDS Integers, FiniteSets, Sequences, TLC

VARIABLES
    users,    \* the users table: id -> row
    now,      \* the clock, in whole seconds
    issued,   \* history: the tokens handed out that the model follows, with class and issue time
    used,     \* history: tokens already rotated, logged out or redeemed
    resp,     \* the last request and its response
    posts,    \* the posts table: id -> row
    comments, \* the comments table: id -> row
    session,  \* the admin panel's session of the one browser the model follows
    out,      \* the rest of the last request's record: inputs, snapshots, media calls
    tasks     \* the requests in flight when requests overlap: where each stands, what it holds

vars == <<users, now, issued, used, resp, posts, comments, session, out, tasks>>

\* what the authentication endpoints never touch
site == <<posts, comments, session, out, tasks>>

----------------------------------------------------------------------------
(* Program constants *)

ACCESS_LIFETIME == 900
REFRESH_LIFETIME == 604800
VERIFY_HOURS == 24
VerifyLifetime == VERIFY_HOURS * 3600

JWT_SECRET == "JWT_SECRET"
AUTH_AUD == "fastapi-users:auth"
VERIFY_AUD == "fastapi-users:verify"

(* Bounds of the model *)

MaxIssued == 4
MaxStart == 0

UserIds == {"u1", "u2"}
Passwords == {"pw1", "pw2"}
Password(u) == IF u = "u1" THEN "pw1" ELSE "pw2"
Email(u) == IF u = "u1" THEN "a@example.com" ELSE "b@example.com"
Usernames == {Email(u) : u \in UserIds} \cup {"nobody@example.com"}

----------------------------------------------------------------------------
(* Token strings.  form = "jwt" is a well-formed signed token, "garbage"  *)
(* a string that is no JWT, "none" an absent header / cookie.             *)

NoToken == [form |-> "none", sub |-> "", email |-> "", aud |-> "", exp |-> 0, key |-> ""]
Garbage == [form |-> "garbage", sub |-> "", email |-> "", aud |-> "", exp |-> 0, key |-> ""]

\* jwt.encode(payload, key, algorithm="HS256"): deterministic in payload and key
EncodeJWT(sub, email, aud, exp, key) ==
    [form |-> "jwt", sub |-> sub, email |-> email, aud |-> aud, exp |-> exp, key |-> key]

\* a token signed by somebody who does not hold the secret
Forge(t) == [t EXCEPT !.key = "attacker"]

\* mutant: the exp claim is not verified
DecodeJWT_NoExpiry(token, key, audience, t) ==
    IF token.form # "jwt" THEN "DecodeError"
    ELSE IF token.key # key THEN "InvalidSignatureError"
    ELSE IF token.aud # audience THEN "InvalidAudienceError"
    ELSE "ok"

\* mutant: the aud claim is not verified
DecodeJWT_NoAudience(token, key, audience, t) ==
    IF token.form # "jwt" THEN "DecodeError"
    ELSE IF token.key # key THEN "InvalidSignatureError"
    ELSE IF token.exp <= t THEN "ExpiredSignatureError"
    ELSE "ok"

\* jwt.decode(token, key, audience=..., algorithms=["HS256"]):
\* structure and signature first, then exp (expired from second exp on),
\* then aud.
DecodeJWT(token, key, audience, t) ==
    IF token.form # "jwt" THEN "DecodeError"
    ELSE IF token.key # key THEN "InvalidSignatureError"
    ELSE IF token.exp <= t THEN "ExpiredSignatureError"
    ELSE IF token.aud # audience THEN "InvalidAudienceError"
    ELSE "ok"

----------------------------------------------------------------------------
(* The user table *)

PasswordHash(pw) == <<"hash", pw>>

NoRow == [born |-> FALSE, exists |-> FALSE, hashed_password |-> PasswordHash(""),
          is_active |-> FALSE, is_verified |-> FALSE, is_superuser |-> FALSE]
GoneRow == [NoRow EXCEPT !.born = TRUE]

NoUser == "None"

\* user_db.get(id) / user_manager.get(id): the id of the row, or None
GetUser(id) == IF id \in UserIds /\ users[id].exists THEN id ELSE NoUser

\* user_db.get_by_email(email)
GetByEmail(email) ==
    IF \E u \in UserIds : users[u].exists /\ Email(u) = email
    THEN CHOOSE u \in UserIds : users[u].exists /\ Email(u) = email
    ELSE NoUser

----------------------------------------------------------------------------
(* The posts and comments tables.  Ids are handed out in order and never   *)
(* used again.  Of the text columns of a post the model follows title;     *)
(* content is carried the same way.                                        *)

MaxPosts == 1
MaxComments == 1

PostIds == 1 .. MaxPosts
CommentIds == 1 .. MaxComments

\* None in a nullable column or in a payload
Null == "<null>"

\* a field the client left out of the payload (model_dump(exclude_unset=True))
Unset == "<unset>"

NoPost == [born |-> FALSE, exists |-> FALSE, owner_id |-> NoUser, title |-> "",
           image_url |-> Null, video_url |-> Null]
GonePost == [NoPost EXCEPT !.born = TRUE]

NoComment == [born |-> FALSE, exists |-> FALSE, owner_id |-> NoUser, post_id |-> 1,
              content |-> ""]
GoneComment == [NoComment EXCEPT !.born = TRUE]

\* the id the sequence of a table hands out next; 0 when the model's ids are used up
NewId(table, ids) ==
    IF \A i \in ids : table[i].born THEN 0
    ELSE CHOOSE i \in ids : ~table[i].born /\ \A j \in ids : j < i => table[j].born

\* the admin session: user_id and user_email, "" while the key is absent
NoSession == [user_id |-> "", user_email |-> ""]

\* the requests that overlap
TaskIds == {"r1", "r2"}

----------------------------------------------------------------------------
(* JWT strategies *)

get_access_token_strategy ==
    [secret |-> JWT_SECRET, lifetime_seconds |-> ACCESS_LIFETIME, token_audience |-> AUTH_AUD]

get_refresh_token_strategy ==
    [secret |-> JWT_SECRET, lifetime_seconds |-> REFRESH_LIFETIME, token_audience |-> AUTH_AUD]

\* mutant: every strategy writes the access lifetime
write_token_AccessLifetime(strategy, user) ==
    EncodeJWT(user, "", strategy.token_audience, now + ACCESS_LIFETIME, strategy.secret)

\* JWTStrategy.write_token(user): {"sub", "aud"} plus exp = now + lifetime_seconds
write_token(strategy, user) ==
    EncodeJWT(user, "", strategy.token_audience, now + strategy.lifetime_seconds,
              strategy.secret)

\* JWTStrategy.read_token(token, user_manager): the user, or None
read_token(strategy, token) ==
    IF token = NoToken THEN NoUser
    ELSE IF DecodeJWT(token, strategy.secret, strategy.token_audience, now) # "ok" THEN NoUser
    ELSE GetUser(token.sub)

----------------------------------------------------------------------------
(* Requests and responses *)

NoReq == [username |-> "", password |-> "", bearer |-> NoToken, cookie |-> NoToken,
          token |-> NoToken, user |-> ""]

\* before: the users table as the request found it
Resp(op, req, status, detail) ==
    [op |-> op, req |-> req, status |-> status, detail |-> detail, outcome |-> "",
     user |-> NoUser, access_token |-> NoToken, set_cookie |-> NoToken,
     delete_cookie |-> FALSE, writes |-> 0, before |-> users]

IdleResp == [Resp("idle", NoReq, 0, "") EXCEPT !.before = [u \in UserIds |-> NoRow]]

\* a payload of PostCreate / PostUpdate / CommentCreate / CommentUpdate
NoPayload == [title |-> Unset, content |-> Unset, image_url |-> Unset, video_url |-> Unset]

\* id: the path parameter; commit, store: what the database and the media
\* store did; scheduled: the delete tasks gathered; calls: the calls the
\* media store received; posts, comments, session: as the request found them
NoOut == [id |-> 0, payload |-> NoPayload, commit |-> "", store |-> "",
          scheduled |-> <<>>, calls |-> <<>>,
          posts |-> [p \in PostIds |-> NoPost],
          comments |-> [c \in CommentIds |-> NoComment],
          session |-> NoSession]

Out(id, payload, commit, store) ==
    [NoOut EXCEPT !.id = id, !.payload = payload, !.commit = commit, !.store = store,
                  !.posts = posts, !.comments = comments, !.session = session]

\* one request in flight.  op, pc: the handler and the await it stands at;
\* user, id, arg, token: the caller the gate resolved, the path parameter,
\* the payload, the query parameter; post, verified, seen: the rows its
\* session has loaded; old: the URLs it captured; exit, status, page: how the handler ended; db: the
\* calls its session received; scheduled: the media deletions it gathered;
\* file_url, store, calls: a coroutine of delete_file_from_imagekit, what
\* the media store did for it and the calls the client received
NoTask == [op |-> "", pc |-> "idle", user |-> NoUser, id |-> 0, arg |-> NoPayload,
           token |-> NoToken, post |-> NoPost, verified |-> FALSE, seen |-> {},
           old |-> [image_url |-> Null, video_url |-> Null],
           exit |-> "", status |-> 0, page |-> "", db |-> <<>>, scheduled |-> <<>>,
           file_url |-> Null, store |-> "", calls |-> <<>>]
NoTasks == [t \in TaskIds |-> NoTask]

\* between requests: the last response has been delivered
Idle == resp.op = "idle"

Tokens(S) == {i.tok : i \in S}

\* what a client can put in a header, a cookie or a query string
Presentable ==
    Tokens(issued) \cup {Forge(i.tok) : i \in {j \in issued : j.kind # "access"}} \cup {Garbage}

Issue(kind, tok) == [kind |-> kind, at |-> now, tok |-> tok]

\* the history follows the tokens handed out in the first seconds, up to MaxIssued
Track(new) ==
    IF now <= MaxStart /\ Cardinality(issued \cup new) <= MaxIssued THEN new ELSE {}

----------------------------------------------------------------------------
(* Registration: the register router creates the row, then the hook runs *)

\* UserManager.on_after_register: the verification token it mails
on_after_register(user) ==
    EncodeJWT(user, Email(user), VERIFY_AUD, now + VerifyLifetime, JWT_SECRET)

\* what the mail transport does with the message: it is sent, fm.send_message
\* raises, or something raises in email.py before its try block is entered
MailOutcomes == {"sent", "send_message raises", "raises before send"}

\* email.send_verification_email: the exception that leaves it ("" when it
\* returns) and whether the message went out
email_send_verification_email(mail) ==
    IF mail = "raises before send" THEN [raised |-> "Exception", delivered |-> FALSE]
    ELSE IF mail = "send_message raises" THEN [raised |-> "", delivered |-> FALSE]
    ELSE [raised |-> "", delivered |-> TRUE]

\* mutant: the manager calls the mailer with no try/except of its own
send_verification_email_NoTry(mail) == email_send_verification_email(mail)

\* UserManager.send_verification_email: "except Exception: pass"
send_verification_email(mail) ==
    [email_send_verification_email(mail) EXCEPT !.raised = ""]

\* ids are handed out in order: "u2" is the second user to register.
\* user_db.create commits the row, then the hook runs; the token reaches the
\* user when the message went out.  outcome records what the transport did,
\* detail the exception that left the hook.
Register(u, pw, mail) ==
    /\ Idle
    /\ UNCHANGED site
    /\ ~users[u].born
    /\ u = "u2" => users["u1"].born
    /\ now <= MaxStart
    /\ LET hook == send_verification_email(mail) IN
       /\ users' = [users EXCEPT ![u] = [born |-> TRUE, exists |-> TRUE,
                                         hashed_password |-> PasswordHash(pw),
                                         is_active |-> TRUE, is_verified |-> FALSE,
                                         is_superuser |-> FALSE]]
       /\ issued' = issued \cup Track(IF hook.delivered
                                      THEN {Issue("verify", on_after_register(u))}
                                      ELSE {})
       /\ resp' = [Resp("register", [NoReq EXCEPT !.username = Email(u), !.password = pw],
                        IF hook.raised = "" THEN 201 ELSE 500, hook.raised)
                      EXCEPT !.writes = 1, !.user = u, !.outcome = mail]
    /\ UNCHANGED <<now, used>>

----------------------------------------------------------------------------
(* POST /auth/login *)

\* BaseUserManager.authenticate(credentials)
authenticate(username, password) ==
    LET u == GetByEmail(username) IN
    IF u = NoUser THEN NoUser
    ELSE IF users[u].hashed_password # PasswordHash(password) THEN NoUser
    ELSE u

\* mutant: the is_active test of the login guard is dropped
LoginRejects_NoActiveTest(user) == user = NoUser

\* "if user is None or not user.is_active"
LoginRejects(user) == user = NoUser \/ ~users[user].is_active

login(username, password) ==
    /\ Idle
    /\ UNCHANGED site
    /\ LET req == [NoReq EXCEPT !.username = username, !.password = password]
           user == authenticate(username, password)
       IN  IF LoginRejects(user)
           THEN /\ resp' = Resp("login", req, 400, "LOGIN_BAD_CREDENTIALS")
                /\ UNCHANGED <<users, now, issued, used>>
           ELSE LET access_token == write_token(get_access_token_strategy, user)
                    refresh_token == write_token(get_refresh_token_strategy, user)
                    new == {Issue("access", access_token), Issue("refresh", refresh_token)}
                IN  /\ issued' = issued \cup Track(new)
                    /\ resp' = [Resp("login", req, 200, "") EXCEPT
                                   !.user = user,
                                   !.access_token = access_token,
                                   !.set_cookie = refresh_token]
                    /\ UNCHANGED <<users, now, used>>

----------------------------------------------------------------------------
(* POST /auth/refresh *)

\* mutant: the refresh handler does not look at is_active again
RefreshRejects_NoActiveTest(user) == user = NoUser

\* "if user is None or not user.is_active"
RefreshRejects(user) == user = NoUser \/ ~users[user].is_active

refresh_token(cookie) ==
    /\ Idle
    /\ UNCHANGED site
    /\ LET req == [NoReq EXCEPT !.cookie = cookie] IN
       IF cookie = NoToken
       THEN /\ resp' = Resp("refresh", req, 401, "Refresh token not found. Please login again.")
            /\ UNCHANGED <<users, now, issued, used>>
       ELSE LET user == read_token(get_refresh_token_strategy, cookie) IN
            IF RefreshRejects(user)
            THEN \* the 401 raised inside the try is caught and raised again as a 401
                 /\ resp' = Resp("refresh", req, 401,
                                 "Invalid or expired refresh token. Please login again.")
                 /\ UNCHANGED <<users, now, issued, used>>
            ELSE LET new_access_token == write_token(get_access_token_strategy, user)
                     new_refresh_token == write_token(get_refresh_token_strategy, user)
                     new == {Issue("access", new_access_token),
                             Issue("refresh", new_refresh_token)}
                 IN  /\ issued' = issued \cup Track(new)
                     /\ used' = used \cup {[tok |-> cookie, how |-> "rotated"]}
                     /\ resp' = [Resp("refresh", req, 200, "") EXCEPT
                                    !.user = user,
                                    !.access_token = new_access_token,
                                    !.set_cookie = new_refresh_token]
                     /\ UNCHANGED <<users, now>>

----------------------------------------------------------------------------
(* POST /auth/logout *)

\* the handler reads nothing of the request; the client then drops its cookie
logout ==
    /\ Idle
    /\ UNCHANGED site
    /\ resp' = [Resp("logout", NoReq, 200, "Successfully logged out") EXCEPT
                   !.delete_cookie = TRUE]
    /\ used' = used \cup {[tok |-> i.tok, how |-> "logout"] :
                               i \in {j \in issued : j.kind = "refresh"}}
    /\ UNCHANGED <<users, now, issued>>

----------------------------------------------------------------------------
(* GET /auth/verify *)

\* the classes caught by "except jwt.InvalidTokenError"
InvalidTokenErrors ==
    {"DecodeError", "InvalidSignatureError", "ExpiredSignatureError", "InvalidAudienceError"}

\* mutant: one page for every token error
VerifyExcept_OnePage(exc) ==
    IF exc \in InvalidTokenErrors THEN "invalid" ELSE "error"

\* the except chain of verify_email_get: which page an exception renders
VerifyExcept(exc) ==
    IF exc = "ExpiredSignatureError" THEN "expired"
    ELSE IF exc \in InvalidTokenErrors THEN "invalid"
    ELSE "error"

\* mutant: the is_verified test is missing, every redemption writes
VerifyTry_NoVerifiedTest(token) ==
    LET err == DecodeJWT(token, JWT_SECRET, VERIFY_AUD, now) IN
    IF err # "ok" THEN [raised |-> err, page |-> "", user |-> NoUser]
    ELSE IF token.sub = "" THEN [raised |-> "HTTPException", page |-> "", user |-> NoUser]
    ELSE LET user == GetUser(token.sub) IN
         IF user = NoUser THEN [raised |-> "HTTPException", page |-> "", user |-> NoUser]
         ELSE [raised |-> "", page |-> "success", user |-> user]

\* mutant: the update writes is_active along with is_verified
user_db_update_MoreColumns(user) ==
    [users EXCEPT ![user].is_verified = TRUE, ![user].is_active = TRUE]

\* user.is_verified = True; user_db.update(user, {"is_verified": True}):
\* one column of one row
user_db_update(user) == [users EXCEPT ![user].is_verified = TRUE]

\* the body of the try block: the exception it raises, or the page it returns
VerifyTry(token) ==
    LET err == DecodeJWT(token, JWT_SECRET, VERIFY_AUD, now) IN
    IF err # "ok" THEN [raised |-> err, page |-> "", user |-> NoUser]
    ELSE IF token.sub = "" THEN [raised |-> "HTTPException", page |-> "", user |-> NoUser]
    ELSE LET user == GetUser(token.sub) IN
         IF user = NoUser THEN [raised |-> "HTTPException", page |-> "", user |-> NoUser]
         ELSE IF users[user].is_verified
              THEN [raised |-> "", page |-> "already", user |-> user]
              ELSE [raised |-> "", page |-> "success", user |-> user]

verify_email_get(token) ==
    /\ Idle
    /\ UNCHANGED site
    /\ LET req == [NoReq EXCEPT !.token = token]
           r == VerifyTry(token)
           outcome == IF r.raised # "" THEN VerifyExcept(r.raised) ELSE r.page
       IN  /\ IF outcome = "success"
              THEN /\ users' = user_db_update(r.user)
                   /\ used' = used \cup {[tok |-> token, how |-> "redeemed"]}
              ELSE UNCHANGED <<users, used>>
           /\ resp' = [Resp("verify", req, 200, "") EXCEPT
                          !.outcome = outcome,
                          !.user = r.user,
                          !.writes = IF outcome = "success" THEN 1 ELSE 0]
           /\ UNCHANGED <<now, issued>>

----------------------------------------------------------------------------
(* The current-user gate (fastapi_users.current_user) and GET /protected *)

\* the backends in order: bearer with the access strategy, then the
\* refresh_token cookie with the refresh strategy; the first user found wins
BackendUser(bearer, cookie) ==
    LET fromBearer == read_token(get_access_token_strategy, bearer) IN
    IF fromBearer # NoUser THEN fromBearer
    ELSE read_token(get_refresh_token_strategy, cookie)

current_user(bearer, cookie, active, verified) ==
    LET user == BackendUser(bearer, cookie) IN
    IF user = NoUser THEN [status |-> 401, user |-> NoUser]
    ELSE IF active /\ ~users[user].is_active THEN [status |-> 401, user |-> NoUser]
    ELSE IF verified /\ ~users[user].is_verified THEN [status |-> 403, user |-> NoUser]
    ELSE [status |-> 200, user |-> user]

current_active_user(bearer, cookie) == current_user(bearer, cookie, TRUE, FALSE)

protected_route(bearer, cookie) ==
    /\ Idle
    /\ UNCHANGED site
    /\ LET req == [NoReq EXCEPT !.bearer = bearer, !.cookie = cookie]
           gate == current_active_user(bearer, cookie)
       IN  /\ resp' = [Resp("protected", req, gate.status, "") EXCEPT !.user = gate.user]
           /\ UNCHANGED <<users, now, issued, used>>

\* a client sends a bearer header, a refresh_token cookie, or neither
ProtectedRequests ==
    {<<b, NoToken>> : b \in Tokens(issued) \cup {NoToken}}
        \cup {<<NoToken, c>> : c \in Tokens(issued)}

----------------------------------------------------------------------------
(* The admin panel's user view: rows are edited and deleted there *)

AdminSetActive(u, b) ==
    /\ Idle
    /\ UNCHANGED site
    /\ users[u].exists
    /\ users[u].is_active # b
    /\ users' = [users EXCEPT ![u].is_active = b]
    /\ UNCHANGED <<now, issued, used, resp>>

\* the delete cascades to the user's posts and comments, and to the
\* comments under those posts (models.py: cascade="all, delete-orphan")
AdminDeleteUser(u) ==
    /\ Idle
    /\ users[u].exists
    /\ users' = [users EXCEPT ![u] = GoneRow]
    /\ posts' = [p \in PostIds |->
                    IF posts[p].exists /\ posts[p].owner_id = u THEN GonePost ELSE posts[p]]
    /\ comments' = [c \in CommentIds |->
                       IF /\ comments[c].exists
                          /\ \/ comments[c].owner_id = u
                             \/ posts[comments[c].post_id].owner_id = u
                       THEN GoneComment ELSE comments[c]]
    /\ UNCHANGED <<now, issued, used, tasks, resp, session, out>>

----------------------------------------------------------------------------
(* The clock: it moves to the instants around the expiry of a token *)

Instants == (1 .. MaxStart) \cup {t.exp + e : t \in Tokens(issued), e \in {-1, 0, 1}}

Advance(t) ==
    /\ Idle
    /\ UNCHANGED site
    /\ t > now
    /\ now' = t
    /\ UNCHANGED <<users, issued, used, resp>>

----------------------------------------------------------------------------

Init ==
    /\ users = [u \in UserIds |-> NoRow]
    /\ now = 0
    /\ issued = {}
    /\ used = {}
    /\ resp = IdleResp
    /\ posts = [p \in PostIds |-> NoPost]
    /\ comments = [c \in CommentIds |-> NoComment]
    /\ session = NoSession
    /\ out = NoOut
    /\ tasks = NoTasks

\* the response leaves the server: the request is over
Respond ==
    /\ ~Idle
    /\ resp' = IdleResp
    /\ out' = NoOut
    /\ UNCHANGED <<users, now, issued, used, tasks, posts, comments, session>>

\* requests are taken one at a time
Next ==
    \/ \E u \in UserIds : Register(u, Password(u), "sent")
    \/ \E username \in Usernames, pw \in Passwords : login(username, pw)
    \/ \E c \in Presentable \cup {NoToken} : refresh_token(c)
    \/ logout
    \/ \E t \in Presentable : verify_email_get(t)
    \/ \E r \in ProtectedRequests : protected_route(r[1], r[2])
    \/ \E u \in UserIds, b \in BOOLEAN : AdminSetActive(u, b)
    \/ \E u \in UserIds : AdminDeleteUser(u)
    \/ \E t \in Instants : Advance(t)
    \/ Respond

Spec == Init /\ [][Next]_vars

----------------------------------------------------------------------------
(* Media cleanup (utils.py) *)

\* the URLs under settings.IMAGEKIT_URL_ENDPOINT that the model follows
ImageKitUrls == {"ik/a", "ik/b"}

\* file_url.startswith(settings.IMAGEKIT_URL_ENDPOINT)
IsImageKitUrl(url) == url \in ImageKitUrls

\* Python truth of a "str | None": None and "" are false
Truthy(v) == v \notin {Null, ""}

\* what the media store does during one request: the client is None (it
\* failed to initialise), list_files raises, list_files finds no file,
\* delete_file raises, or the file is deleted
StoreOutcomes == {"no client", "list_files raises", "no file", "delete_file raises", "deleted"}

Call(method, url) == [method |-> method, url |-> url]

\* mutant: no try/except around the calls of the client
delete_file_from_imagekit_NoTry(file_url, store) ==
    IF ~Truthy(file_url) \/ store = "no client" THEN [calls |-> <<>>, raised |-> FALSE]
    ELSE IF ~IsImageKitUrl(file_url) THEN [calls |-> <<>>, raised |-> FALSE]
    ELSE IF store = "list_files raises"
         THEN [calls |-> <<Call("list_files", file_url)>>, raised |-> TRUE]
    ELSE IF store = "no file"
         THEN [calls |-> <<Call("list_files", file_url)>>, raised |-> FALSE]
    ELSE [calls |-> <<Call("list_files", file_url), Call("delete_file", file_url)>>,
          raised |-> store = "delete_file raises"]

\* mutant: the URL is not compared with the endpoint
delete_file_from_imagekit_NoEndpointTest(file_url, store) ==
    IF ~Truthy(file_url) \/ store = "no client" THEN [calls |-> <<>>, raised |-> FALSE]
    ELSE IF store = "list_files raises"
         THEN [calls |-> <<Call("list_files", file_url)>>, raised |-> FALSE]
    ELSE IF store = "no file"
         THEN [calls |-> <<Call("list_files", file_url)>>, raised |-> FALSE]
    ELSE [calls |-> <<Call("list_files", file_url), Call("delete_file", file_url)>>,
          raised |-> FALSE]

\* delete_file_from_imagekit(file_url): the calls the client receives, and
\* whether an exception leaves the function
delete_file_from_imagekit(file_url, store) ==
    IF ~Truthy(file_url) \/ store = "no client" THEN [calls |-> <<>>, raised |-> FALSE]
    ELSE IF ~IsImageKitUrl(file_url) THEN [calls |-> <<>>, raised |-> FALSE]
    ELSE IF store = "list_files raises"
         THEN [calls |-> <<Call("list_files", file_url)>>, raised |-> FALSE]
    ELSE IF store = "no file"
         THEN [calls |-> <<Call("list_files", file_url)>>, raised |-> FALSE]
    ELSE [calls |-> <<Call("list_files", file_url), Call("delete_file", file_url)>>,
          raised |-> FALSE]

\* one entry of delete_tasks: the field whose old value is deleted, and the value
Task(field, url) == [field |-> field, url |-> url]

RECURSIVE Flatten(_)
Flatten(ss) == IF ss = <<>> THEN <<>> ELSE Head(ss) \o Flatten(Tail(ss))

\* "if delete_tasks: await asyncio.gather(*delete_tasks)": the store answers
\* every call of one request the same way
Gather(delete_tasks, store) ==
    LET ran == [i \in 1 .. Len(delete_tasks) |->
                    delete_file_from_imagekit(delete_tasks[i].url, store)]
    IN  [calls |-> Flatten([i \in 1 .. Len(delete_tasks) |-> ran[i].calls]),
         raised |-> \E i \in 1 .. Len(delete_tasks) : ran[i].raised]

----------------------------------------------------------------------------
(* The /posts and /comments routers *)

\* mutant: the gate of the routers does not ask for a verified user
current_active_verified_user_NoVerifiedTest(bearer) ==
    current_user(bearer, NoToken, TRUE, FALSE)

\* mutant: the gate of the routers does not ask for an active user
current_active_verified_user_NoActiveTest(bearer) ==
    current_user(bearer, NoToken, FALSE, TRUE)

\* current_active_verified_user = fastapi_users.current_user(active=True,
\* verified=True); the routers' clients send the bearer header
current_active_verified_user(bearer) == current_user(bearer, NoToken, TRUE, TRUE)

\* mutant: the owner is not compared with the caller
OwnershipGuard_NoOwnerTest(row, user) == IF ~row.exists THEN 404 ELSE 0

\* "if x is None: raise 404" then "if x.owner_id != user.id: raise 403";
\* 0 when the caller may go on
OwnershipGuard(row, user) ==
    IF ~row.exists THEN 404
    ELSE IF row.owner_id # user THEN 403
    ELSE 0

\* mutant: the posts table takes a NULL title
PostCommits_NullTitle(row, commit) == commit = "ok"

\* session.commit(): the database may fail by itself, and it refuses None
\* in the NOT NULL columns posts.title and comments.content
PostCommits(row, commit) == commit = "ok" /\ row.title # Null
CommentCommits(row, commit) == commit = "ok" /\ row.content # Null

\* mutant: model_dump() without exclude_unset, every field is written
Field_AlwaysWritten(value, default) == IF value = Unset THEN Null ELSE value

\* a payload field, with the default of the schema when the client left it out
Field(value, default) == IF value = Unset THEN default ELSE value

BlogResp(op, bearer, gate, status) ==
    [Resp(op, [NoReq EXCEPT !.bearer = bearer], status, "") EXCEPT !.user = gate.user]


\* POST /posts/
create_post(bearer, post, commit) ==
    /\ Idle
    /\ LET gate == current_active_verified_user(bearer)
           id == NewId(posts, PostIds)
           new_post == [born |-> TRUE, exists |-> TRUE, owner_id |-> gate.user,
                        title |-> post.title,
                        image_url |-> Field(post.image_url, Null),
                        video_url |-> Field(post.video_url, Null)]
       IN  /\ id # 0
           /\ IF gate.status # 200
              THEN /\ resp' = BlogResp("create_post", bearer, gate, gate.status)
                   /\ out' = Out(0, post, "", "")
                   /\ UNCHANGED posts
              ELSE IF ~PostCommits(new_post, commit)
              THEN /\ resp' = BlogResp("create_post", bearer, gate, 500)
                   /\ out' = Out(0, post, commit, "")
                   /\ UNCHANGED posts
              ELSE /\ posts' = [posts EXCEPT ![id] = new_post]
                   /\ resp' = [BlogResp("create_post", bearer, gate, 201) EXCEPT !.writes = 1]
                   /\ out' = Out(id, post, commit, "")
    /\ UNCHANGED <<users, now, issued, used, tasks, comments, session>>

\* PATCH /posts/{post_id}
update_post(bearer, post_id, post_update, commit, store) ==
    /\ Idle
    /\ LET gate == current_active_verified_user(bearer)
           post == posts[post_id]
           guard == IF gate.status # 200 THEN gate.status ELSE OwnershipGuard(post, gate.user)
           old_image_url == IF post_update.image_url # Unset THEN post.image_url ELSE Null
           old_video_url == IF post_update.video_url # Unset THEN post.video_url ELSE Null
           updated == [post EXCEPT !.title = Field(post_update.title, @),
                                   !.image_url = Field(post_update.image_url, @),
                                   !.video_url = Field(post_update.video_url, @)]
           committed == PostCommits(updated, commit)
           delete_tasks ==
               (IF Truthy(old_image_url) /\ old_image_url # updated.image_url
                THEN <<Task("image_url", old_image_url)>> ELSE <<>>)
               \o (IF Truthy(old_video_url) /\ old_video_url # updated.video_url
                   THEN <<Task("video_url", old_video_url)>> ELSE <<>>)
           scheduled == IF committed THEN delete_tasks ELSE <<>>
           ran == Gather(scheduled, store)
       IN  IF guard # 0
           THEN /\ resp' = BlogResp("update_post", bearer, gate, guard)
                /\ out' = Out(post_id, post_update, "", "")
                /\ UNCHANGED posts
           ELSE /\ posts' = IF committed THEN [posts EXCEPT ![post_id] = updated] ELSE posts
                /\ resp' = [BlogResp("update_post", bearer, gate,
                                     IF committed /\ ~ran.raised THEN 200 ELSE 500)
                               EXCEPT !.writes = IF committed THEN 1 ELSE 0]
                /\ out' = [Out(post_id, post_update, commit,
                               IF scheduled = <<>> THEN "" ELSE store)
                              EXCEPT !.scheduled = scheduled, !.calls = ran.calls]
    /\ UNCHANGED <<users, now, issued, used, tasks, comments, session>>

\* mutant: the files are deleted whether or not the commit went through
DeleteCleans_BeforeCommit(committed) == TRUE

\* "Now that the post is deleted from the DB, delete files from ImageKit"
DeleteCleans(committed) == committed

\* DELETE /posts/{post_id}; the delete cascades to the comments of the post
delete_post(bearer, post_id, commit, store) ==
    /\ Idle
    /\ LET gate == current_active_verified_user(bearer)
           post == posts[post_id]
           guard == IF gate.status # 200 THEN gate.status ELSE OwnershipGuard(post, gate.user)
           image_url_to_delete == post.image_url
           video_url_to_delete == post.video_url
           committed == commit = "ok"
           delete_tasks ==
               (IF Truthy(image_url_to_delete)
                THEN <<Task("image_url", image_url_to_delete)>> ELSE <<>>)
               \o (IF Truthy(video_url_to_delete)
                   THEN <<Task("video_url", video_url_to_delete)>> ELSE <<>>)
           scheduled == IF DeleteCleans(committed) THEN delete_tasks ELSE <<>>
           ran == Gather(scheduled, store)
       IN  IF guard # 0
           THEN /\ resp' = BlogResp("delete_post", bearer, gate, guard)
                /\ out' = Out(post_id, NoPayload, "", "")
                /\ UNCHANGED <<posts, comments>>
           ELSE /\ IF committed
                   THEN /\ posts' = [posts EXCEPT ![post_id] = GonePost]
                        /\ comments' = [c \in CommentIds |->
                                           IF comments[c].exists /\ comments[c].post_id = post_id
                                           THEN GoneComment ELSE comments[c]]
                   ELSE UNCHANGED <<posts, comments>>
                /\ resp' = [BlogResp("delete_post", bearer, gate,
                                     IF committed /\ ~ran.raised THEN 204 ELSE 500)
                               EXCEPT !.writes = IF committed THEN 1 ELSE 0]
                /\ out' = [Out(post_id, NoPayload, commit,
                               IF scheduled = <<>> THEN "" ELSE store)
                              EXCEPT !.scheduled = scheduled, !.calls = ran.calls]
    /\ UNCHANGED <<users, now, issued, used, tasks, session>>

\* POST /posts/{post_id}/comments/
create_comment_for_post(bearer, post_id, comment, commit) ==
    /\ Idle
    /\ LET gate == current_active_verified_user(bearer)
           id == NewId(comments, CommentIds)
           new_comment == [born |-> TRUE, exists |-> TRUE, owner_id |-> gate.user,
                           post_id |-> post_id, content |-> comment.content]
           status == IF gate.status # 200 THEN gate.status
                     ELSE IF ~posts[post_id].exists THEN 404
                     ELSE IF ~CommentCommits(new_comment, commit) THEN 500
                     ELSE 201
       IN  /\ id # 0
           /\ resp' = [BlogResp("create_comment", bearer, gate, status)
                          EXCEPT !.writes = IF status = 201 THEN 1 ELSE 0]
           /\ out' = Out(IF status = 201 THEN id ELSE post_id, comment,
                         IF status \in {201, 500} THEN commit ELSE "", "")
           /\ comments' = IF status = 201 THEN [comments EXCEPT ![id] = new_comment]
                          ELSE comments
    /\ UNCHANGED <<users, now, issued, used, tasks, posts, session>>

\* PATCH /comments/{comment_id}
update_comment(bearer, comment_id, comment_update, commit) ==
    /\ Idle
    /\ LET gate == current_active_verified_user(bearer)
           comment == comments[comment_id]
           guard == IF gate.status # 200 THEN gate.status
                    ELSE OwnershipGuard(comment, gate.user)
           updated == [comment EXCEPT !.content = Field(comment_update.content, @)]
           status == IF guard # 0 THEN guard
                     ELSE IF ~CommentCommits(updated, commit) THEN 500
                     ELSE 200
       IN  /\ resp' = [BlogResp("update_comment", bearer, gate, status)
                          EXCEPT !.writes = IF status = 200 THEN 1 ELSE 0]
           /\ out' = Out(comment_id, comment_update, IF guard = 0 THEN commit ELSE "", "")
           /\ comments' = IF status = 200 THEN [comments EXCEPT ![comment_id] = updated]
                          ELSE comments
    /\ UNCHANGED <<users, now, issued, used, tasks, posts, session>>

\* DELETE /comments/{comment_id}
delete_comment(bearer, comment_id, commit) ==
    /\ Idle
    /\ LET gate == current_active_verified_user(bearer)
           comment == comments[comment_id]
           guard == IF gate.status # 200 THEN gate.status
                    ELSE OwnershipGuard(comment, gate.user)
           status == IF guard # 0 THEN guard
                     ELSE IF commit # "ok" THEN 500
                     ELSE 204
       IN  /\ resp' = [BlogResp("delete_comment", bearer, gate, status)
                          EXCEPT !.writes = IF status = 204 THEN 1 ELSE 0]
           /\ out' = Out(comment_id, NoPayload, IF guard = 0 THEN commit ELSE "", "")
           /\ comments' = IF status = 204 THEN [comments EXCEPT ![comment_id] = GoneComment]
                          ELSE comments
    /\ UNCHANGED <<users, now, issued, used, tasks, posts, session>>

----------------------------------------------------------------------------
(* The routers at work.  Both users have registered and logged in at       *)
(* second 0; the clock stands still, so their access tokens stay valid.    *)

Registered(u, verified) ==
    [born |-> TRUE, exists |-> TRUE, hashed_password |-> PasswordHash(Password(u)),
     is_active |-> TRUE, is_verified |-> verified, is_superuser |-> FALSE]

InitSite(verified) ==
    /\ users = [u \in UserIds |-> Registered(u, verified)]
    /\ now = 0
    /\ issued = {}
    /\ used = {}
    /\ resp = IdleResp
    /\ posts = [p \in PostIds |-> NoPost]
    /\ comments = [c \in CommentIds |-> NoComment]
    /\ session = NoSession
    /\ out = NoOut
    /\ tasks = NoTasks

\* the bearer header a client sends: the access token of its login, or none
Bearers == {write_token(get_access_token_strategy, u) : u \in UserIds} \cup {NoToken}

Commits == {"ok", "fails"}

(* Ownership and the gate: users are verified, deactivated and activated   *)
(* while posts and comments come and go.                                   *)

BlogPostCreates == {[NoPayload EXCEPT !.title = "t1", !.image_url = "ik/a"]}
BlogPostUpdates == {[NoPayload EXCEPT !.title = "t2"]}
BlogCommentCreates == {[NoPayload EXCEPT !.content = "c1"]}
BlogCommentUpdates == {[NoPayload EXCEPT !.content = "c2"]}

InitBlog == InitSite(FALSE)

NextBlog ==
    \/ \E u \in UserIds : verify_email_get(on_after_register(u))
    \/ \E u \in UserIds, b \in BOOLEAN : AdminSetActive(u, b)
    \/ \E b \in Bearers, p \in BlogPostCreates : create_post(b, p, "ok")
    \/ \E b \in Bearers, id \in PostIds, p \in BlogPostUpdates, c \in Commits :
          update_post(b, id, p, c, "deleted")
    \/ \E b \in Bearers, id \in PostIds, c \in Commits : delete_post(b, id, c, "deleted")
    \/ \E b \in Bearers, id \in PostIds, p \in BlogCommentCreates :
          create_comment_for_post(b, id, p, "ok")
    \/ \E b \in Bearers, id \in CommentIds, p \in BlogCommentUpdates, c \in Commits :
          update_comment(b, id, p, c)
    \/ \E b \in Bearers, id \in CommentIds, c \in Commits : delete_comment(b, id, c)
    \/ Respond

SpecBlog == InitBlog /\ [][NextBlog]_vars

(* Media cleanup: one verified owner creates, updates and deletes posts    *)
(* with every combination of URLs, and the media store answers in every    *)
(* way.                                                                    *)

MediaValues == {Null, "", "ik/a", "ik/b"}
MediaPostCreates ==
    {[NoPayload EXCEPT !.title = "t1", !.image_url = i, !.video_url = v] :
        i \in MediaValues, v \in MediaValues}
MediaPostUpdates ==
    {[NoPayload EXCEPT !.image_url = i, !.video_url = v] :
        i \in MediaValues \cup {Unset}, v \in MediaValues \cup {Unset}}

Owner == write_token(get_access_token_strategy, "u1")

InitMedia == InitSite(TRUE)

NextMedia ==
    \/ \E p \in MediaPostCreates : create_post(Owner, p, "ok")
    \/ \E id \in PostIds, p \in MediaPostUpdates, c \in Commits, st \in StoreOutcomes :
          update_post(Owner, id, p, c, st)
    \/ \E id \in PostIds, c \in Commits, st \in StoreOutcomes :
          delete_post(Owner, id, c, st)
    \/ Respond

SpecMedia == InitMedia /\ [][NextMedia]_vars

----------------------------------------------------------------------------
(* The admin panel's session login (AdminAuthBackend) *)

\* PasswordHelper().verify_and_update(password, hashed_password)[0]; the
\* helper raises when the password is None
verify_and_update(password, hashed_password) ==
    IF password = Null THEN "raises"
    ELSE IF hashed_password = PasswordHash(password) THEN "True"
    ELSE "False"

\* AdminAuthBackend.login: what it returns ("True", "False") or "raises"
AdminLoginReturns(user, password) ==
    IF user = NoUser THEN "False"
    ELSE LET verified == verify_and_update(password, users[user].hashed_password) IN
         IF verified = "raises" THEN "raises"
         ELSE IF verified = "False" THEN "False"
         ELSE IF ~users[user].is_active \/ ~users[user].is_superuser THEN "False"
         ELSE "True"

\* request.session is Starlette's SessionMiddleware (app.py:80-83): the
\* session is the content of a signed cookie that the client holds and
\* sends; the server keeps nothing.  issued follows the session cookies the
\* server has set, used the ones that authenticate has cleared since their
\* last login.
SessionCookie(user) == [user_id |-> user, user_email |-> Email(user)]

\* POST /admin/login with the form fields username and password; a field
\* the form lacks is None
admin_login(username, password) ==
    /\ Idle
    /\ LET user == GetByEmail(username)
           ret == AdminLoginReturns(user, password)
       IN  /\ session' = IF ret = "True" THEN SessionCookie(user) ELSE session
           /\ issued' = IF ret = "True"
                        THEN issued \cup {Issue("admin_session", SessionCookie(user))}
                        ELSE issued
           /\ used' = IF ret = "True"
                      THEN {x \in used : x.tok # SessionCookie(user)}
                      ELSE used
           /\ resp' = [Resp("admin_login",
                            [NoReq EXCEPT !.username = username, !.password = password],
                            0, "") EXCEPT !.outcome = ret, !.user = user]
           /\ out' = Out(0, NoPayload, "", "")
    /\ UNCHANGED <<users, now, tasks, posts, comments>>

\* AdminAuthBackend.logout: request.session.clear()
admin_logout ==
    /\ Idle
    /\ session' = NoSession
    /\ resp' = [Resp("admin_logout", NoReq, 0, "") EXCEPT !.outcome = "True"]
    /\ out' = Out(0, NoPayload, "", "")
    /\ UNCHANGED <<users, now, issued, used, tasks, posts, comments>>

\* AdminAuthBackend.authenticate: "True", "False" with the session as it
\* was (no user_id in it), or "cleared": False after request.session.clear()
AdminAuthenticates(user_id) ==
    IF user_id = "" THEN "False"
    ELSE IF \/ ~users[user_id].exists
            \/ ~users[user_id].is_active
            \/ ~users[user_id].is_superuser
         THEN "cleared" ELSE "True"

\* the cookies a client can send: the one its browser holds, none, or one
\* the server set earlier
AdminCookies == {session, NoSession} \cup {i.tok : i \in issued}

\* a request for a page of the admin panel: sqladmin calls authenticate
\* on every one of them, with the session of the cookie the client sent;
\* the response sets the cookie anew, or deletes it when the session is empty
admin_authenticate(cookie) ==
    /\ Idle
    /\ LET ret == AdminAuthenticates(cookie.user_id)
       IN  /\ session' = IF ret = "cleared" THEN NoSession ELSE cookie
           /\ used' = IF ret = "cleared"
                      THEN used \cup {[tok |-> cookie, how |-> "cleared"]}
                      ELSE used
           /\ resp' = [Resp("admin_authenticate", NoReq, 0, "")
                          EXCEPT !.outcome = IF ret = "True" THEN "True" ELSE "False"]
           /\ out' = [Out(0, NoPayload, "", "") EXCEPT !.session = cookie]
    /\ UNCHANGED <<users, now, issued, tasks, posts, comments>>

\* the operator makes a user a superuser, or takes the flag back
AdminSetSuperuser(u, b) ==
    /\ Idle
    /\ users[u].exists
    /\ users[u].is_superuser # b
    /\ users' = [users EXCEPT ![u].is_superuser = b]
    /\ UNCHANGED <<now, issued, used, tasks, resp, posts, comments, session, out>>

AdminUsernames == Usernames \cup {Null}
AdminPasswords == Passwords \cup {Null}

InitAdmin == InitSite(TRUE)

NextAdmin ==
    \/ \E username \in AdminUsernames, pw \in AdminPasswords : admin_login(username, pw)
    \/ admin_logout
    \/ \E cookie \in AdminCookies : admin_authenticate(cookie)
    \/ \E u \in UserIds, b \in BOOLEAN : AdminSetSuperuser(u, b)
    \/ \E u \in UserIds, b \in BOOLEAN : AdminSetActive(u, b)
    \/ \E u \in UserIds : AdminDeleteUser(u)
    \/ Respond

SpecAdmin == InitAdmin /\ [][NextAdmin]_vars

----------------------------------------------------------------------------
(* Registration with a mail transport that may fail: who registered can    *)
(* log in, and can redeem the token when the message went out.             *)

NextRegister ==
    \/ \E u \in UserIds, mail \in MailOutcomes : Register(u, Password(u), mail)
    \/ \E username \in Usernames, pw \in Passwords : login(username, pw)
    \/ \E t \in Presentable : verify_email_get(t)
    \/ Respond

SpecRegister == Init /\ [][NextRegister]_vars

----------------------------------------------------------------------------
(* Overlapping requests.  Every request runs in a task of its own, with a  *)
(* session of its own from get_db_session.  A statement reads the rows as  *)
(* the last commit left them and a commit writes at once; a task moves     *)
(* from one await to the next in one step.                                 *)

At(t, op, pc) == tasks[t].op = op /\ tasks[t].pc = pc

OtherVars == <<users, now, issued, used, resp, session, out>>

\* the handler is over: it returned, or an exception leaves it
Ends(t, exit, status) ==
    [tasks[t] EXCEPT !.pc = "ended", !.exit = exit, !.status = status]

\* the model has a row left for every comment that requests in flight insert
RoomFor(op) ==
    op = "create_comment" =>
        Cardinality({c \in CommentIds : ~comments[c].born})
            > Cardinality({t \in TaskIds : /\ tasks[t].op = "create_comment"
                                           /\ tasks[t].pc \in {"select", "commit"}})

\* get_db_session up to its yield, and the gate of the route, which runs on
\* that session: "async with async_session_maker() as session: yield session"
get_db_session(t, op, bearer, id, arg) ==
    /\ tasks[t].pc = "idle"
    /\ RoomFor(op)
    /\ LET gate == current_active_verified_user(bearer)
           task == [NoTask EXCEPT !.op = op, !.id = id, !.arg = arg,
                                  !.user = gate.user, !.db = <<"session">>]
       IN  tasks' = [tasks EXCEPT ![t] =
                        IF gate.status # 200
                        THEN [task EXCEPT !.pc = "ended", !.exit = "HTTPException",
                                          !.status = gate.status]
                        ELSE [task EXCEPT !.pc = "select"]]
    /\ UNCHANGED <<OtherVars, posts, comments>>

\* mutant: the except clause names the unexpected errors only
Rollbacks_NotOnHTTPException(exit) == exit = "Exception"

\* "except Exception:" HTTPException and the errors of the database are
\* Exceptions; asyncio.CancelledError is a BaseException and passes by
Rollbacks(exit) == exit \in {"HTTPException", "Exception"}

\* "except Exception: await session.rollback(); raise"
get_db_session_except(t) ==
    /\ tasks[t].pc = "ended"
    /\ Rollbacks(tasks[t].exit)
    /\ tasks' = [tasks EXCEPT ![t].pc = "finally", ![t].db = Append(@, "rollback")]
    /\ UNCHANGED <<OtherVars, posts, comments>>

\* "finally: await session.close()"
get_db_session_finally(t) ==
    /\ \/ tasks[t].pc = "finally"
       \/ tasks[t].pc = "ended" /\ ~Rollbacks(tasks[t].exit)
    /\ tasks' = [tasks EXCEPT ![t].pc = "done", ![t].db = Append(@, "close")]
    /\ UNCHANGED <<OtherVars, posts, comments>>

\* the awaits of the handlers
HandlerPcs == {"select", "cascade", "commit", "refresh"}

\* the task is cancelled while the handler waits: CancelledError is thrown
\* in at the await
cancelled(t) ==
    /\ tasks[t].pc \in HandlerPcs
    /\ tasks' = [tasks EXCEPT ![t] = Ends(t, "CancelledError", 0)]
    /\ UNCHANGED <<OtherVars, posts, comments>>

\* whether the database enforces the FOREIGN KEY of comments.post_id
\* (DATABASE_URL decides: PostgreSQL does, SQLite does not unless told to)
ForeignKeys == {"enforced", "not enforced"}

\* create_comment_for_post, first await: the SELECT of the post
create_comment_select(t) ==
    /\ At(t, "create_comment", "select")
    /\ tasks' = [tasks EXCEPT ![t] =
                    IF ~posts[tasks[t].id].exists
                    THEN Ends(t, "HTTPException", 404)
                    ELSE [tasks[t] EXCEPT !.pc = "commit"]]
    /\ UNCHANGED <<OtherVars, posts, comments>>

\* second await: session.commit() sends the INSERT
create_comment_commit(t, fk) ==
    /\ At(t, "create_comment", "commit")
    /\ LET id == NewId(comments, CommentIds)
           new_comment == [born |-> TRUE, exists |-> TRUE, owner_id |-> tasks[t].user,
                           post_id |-> tasks[t].id, content |-> tasks[t].arg.content]
       IN  /\ id # 0
           /\ IF fk = "enforced" /\ ~posts[tasks[t].id].exists
              THEN /\ tasks' = [tasks EXCEPT ![t] = Ends(t, "Exception", 500)]
                   /\ UNCHANGED comments
              ELSE /\ comments' = [comments EXCEPT ![id] = new_comment]
                   /\ tasks' = [tasks EXCEPT ![t].pc = "refresh", ![t].seen = {id}]
    /\ UNCHANGED <<OtherVars, posts>>

\* third await: session.refresh(new_comment) and the SELECT with the owner
create_comment_refresh(t) ==
    /\ At(t, "create_comment", "refresh")
    /\ tasks' = [tasks EXCEPT ![t] =
                    IF \E c \in tasks[t].seen : ~comments[c].exists
                    THEN Ends(t, "Exception", 500)
                    ELSE Ends(t, "return", 201)]
    /\ UNCHANGED <<OtherVars, posts, comments>>

\* delete_post, first await: the SELECT of the post, then the guard
delete_post_select(t) ==
    /\ At(t, "delete_post", "select")
    /\ LET post == posts[tasks[t].id]
           guard == OwnershipGuard(post, tasks[t].user)
       IN  tasks' = [tasks EXCEPT ![t] =
                        IF guard # 0 THEN Ends(t, "HTTPException", guard)
                        ELSE [tasks[t] EXCEPT !.pc = "cascade", !.post = post]]
    /\ UNCHANGED <<OtherVars, posts, comments>>

\* second await: session.delete(post) loads post.comments for the cascade
delete_post_cascade(t) ==
    /\ At(t, "delete_post", "cascade")
    /\ tasks' = [tasks EXCEPT ![t].pc = "commit",
                              ![t].seen = {c \in CommentIds :
                                              /\ comments[c].exists
                                              /\ comments[c].post_id = tasks[t].id}]
    /\ UNCHANGED <<OtherVars, posts, comments>>

\* third await: session.commit() sends the DELETE of the comments it loaded
\* and of the post; then the files are gathered
delete_post_commit(t, fk) ==
    /\ At(t, "delete_post", "commit")
    /\ LET post_id == tasks[t].id
           left == {c \in CommentIds : /\ comments[c].exists
                                       /\ comments[c].post_id = post_id
                                       /\ c \notin tasks[t].seen}
           delete_tasks ==
               (IF Truthy(tasks[t].post.image_url)
                THEN <<Task("image_url", tasks[t].post.image_url)>> ELSE <<>>)
               \o (IF Truthy(tasks[t].post.video_url)
                   THEN <<Task("video_url", tasks[t].post.video_url)>> ELSE <<>>)
       IN  IF fk = "enforced" /\ posts[post_id].exists /\ left # {}
           THEN /\ tasks' = [tasks EXCEPT ![t] = Ends(t, "Exception", 500)]
                /\ UNCHANGED <<posts, comments>>
           ELSE /\ posts' = [posts EXCEPT ![post_id] = GonePost]
                /\ comments' = [c \in CommentIds |->
                                   IF c \in tasks[t].seen THEN GoneComment ELSE comments[c]]
                /\ tasks' = [tasks EXCEPT ![t] =
                                [Ends(t, "return", 204) EXCEPT !.scheduled = delete_tasks]]
    /\ UNCHANGED OtherVars

\* one verified owner's post is in the table when the requests arrive
OnePost == [born |-> TRUE, exists |-> TRUE, owner_id |-> "u1", title |-> "t1",
            image_url |-> "ik/a", video_url |-> Null]

InitOverlap ==
    /\ users = [u \in UserIds |-> Registered(u, TRUE)]
    /\ now = 0
    /\ issued = {}
    /\ used = {}
    /\ resp = IdleResp
    /\ posts = [p \in PostIds |-> IF p = 1 THEN OnePost ELSE NoPost]
    /\ comments = [c \in CommentIds |-> NoComment]
    /\ session = NoSession
    /\ out = NoOut
    /\ tasks = NoTasks

OverlapComments == {[NoPayload EXCEPT !.content = "c1"]}

\* the steps of one task in the requests on posts and their comments
CommentsStep(t) ==
    \/ \E b \in Bearers, id \in PostIds, c \in OverlapComments :
          get_db_session(t, "create_comment", b, id, c)
    \/ \E b \in Bearers, id \in PostIds : get_db_session(t, "delete_post", b, id, NoPayload)
    \/ create_comment_select(t)
    \/ \E fk \in ForeignKeys : create_comment_commit(t, fk)
    \/ create_comment_refresh(t)
    \/ delete_post_select(t)
    \/ delete_post_cascade(t)
    \/ \E fk \in ForeignKeys : delete_post_commit(t, fk)
    \/ get_db_session_except(t)
    \/ get_db_session_finally(t)

NextComments == \E t \in TaskIds : CommentsStep(t)

SpecComments == InitOverlap /\ [][NextComments]_vars

\* the session scope on every exit path; the event loop runs every task
\* that can run
NextSession == \E t \in TaskIds : CommentsStep(t) \/ cancelled(t)

SpecSession ==
    /\ InitOverlap
    /\ [][NextSession]_vars
    /\ \A t \in TaskIds : WF_vars(CommentsStep(t) \/ cancelled(t))

----------------------------------------------------------------------------
(* PATCH /posts/{post_id} in overlapping requests of the owner *)

\* update_post, first await: the SELECT of the post; then the guard, and
\* old_image_url and old_video_url are taken from the row as loaded
update_post_select(t) ==
    /\ At(t, "update_post", "select")
    /\ LET post == posts[tasks[t].id]
           guard == OwnershipGuard(post, tasks[t].user)
           post_update == tasks[t].arg
       IN  tasks' = [tasks EXCEPT ![t] =
              IF guard # 0 THEN Ends(t, "HTTPException", guard)
              ELSE [tasks[t] EXCEPT
                      !.pc = "commit",
                      !.post = post,
                      !.old = [image_url |-> IF post_update.image_url # Unset
                                             THEN post.image_url ELSE Null,
                               video_url |-> IF post_update.video_url # Unset
                                             THEN post.video_url ELSE Null]]]
    /\ UNCHANGED <<OtherVars, posts, comments>>

\* the columns the flush puts in its UPDATE: the fields of the payload
\* whose value differs from the row as loaded
Dirty(post, post_update) ==
    {f \in {"title", "image_url", "video_url"} :
        post_update[f] # Unset /\ post_update[f] # post[f]}

\* second await: session.commit() sends UPDATE posts SET <dirty columns>
\* WHERE id = post_id; a row that is gone, a NULL title, or the database
\* itself make it raise
update_post_commit(t, commit) ==
    /\ At(t, "update_post", "commit")
    /\ LET post_id == tasks[t].id
           post_update == tasks[t].arg
           dirty == Dirty(tasks[t].post, post_update)
           written == [f \in DOMAIN posts[post_id] |->
                          IF f \in dirty THEN post_update[f] ELSE posts[post_id][f]]
           committed == /\ PostCommits(written, commit)
                        /\ dirty # {} => posts[post_id].exists
       IN  IF committed
           THEN /\ posts' = [posts EXCEPT ![post_id] = written]
                /\ tasks' = [tasks EXCEPT ![t].pc = "refresh"]
           ELSE /\ tasks' = [tasks EXCEPT ![t] = Ends(t, "Exception", 500)]
                /\ UNCHANGED posts
    /\ UNCHANGED <<OtherVars, comments>>

\* third await: session.refresh(post) reads the row again; then delete_tasks
\* is built from the old URLs and the row as refreshed, and gathered
update_post_refresh(t) ==
    /\ At(t, "update_post", "refresh")
    /\ LET post == posts[tasks[t].id]
           old_image_url == tasks[t].old.image_url
           old_video_url == tasks[t].old.video_url
           delete_tasks ==
               (IF Truthy(old_image_url) /\ old_image_url # post.image_url
                THEN <<Task("image_url", old_image_url)>> ELSE <<>>)
               \o (IF Truthy(old_video_url) /\ old_video_url # post.video_url
                   THEN <<Task("video_url", old_video_url)>> ELSE <<>>)
       IN  tasks' = [tasks EXCEPT ![t] =
              IF ~post.exists THEN Ends(t, "Exception", 500)
              ELSE [Ends(t, "return", 200) EXCEPT !.post = post,
                                                  !.scheduled = delete_tasks]]
    /\ UNCHANGED <<OtherVars, posts, comments>>

\* what the owner sends: a new image, or a new image with the title nulled
OverlapUrls == {"ik/b", "ik/c"}
OverlapPostUpdates ==
    {[NoPayload EXCEPT !.image_url = i] : i \in OverlapUrls}
    \cup {[NoPayload EXCEPT !.title = Null, !.image_url = "ik/b"]}

UpdatesStep(t) ==
    \/ \E b \in Bearers, id \in PostIds, p \in OverlapPostUpdates :
          get_db_session(t, "update_post", b, id, p)
    \/ update_post_select(t)
    \/ \E c \in Commits : update_post_commit(t, c)
    \/ update_post_refresh(t)
    \/ get_db_session_except(t)
    \/ get_db_session_finally(t)

NextUpdates == \E t \in TaskIds : UpdatesStep(t)

SpecUpdates == InitOverlap /\ [][NextUpdates]_vars

----------------------------------------------------------------------------
(* GET /auth/verify in overlapping requests for users not yet verified *)

\* get_user_db: the session of get_db_session, wrapped for the users table
get_user_db(t, token) ==
    /\ tasks[t].pc = "idle"
    /\ tasks' = [tasks EXCEPT ![t] = [NoTask EXCEPT !.op = "verify", !.pc = "get",
                                                   !.token = token, !.db = <<"session">>]]
    /\ UNCHANGED <<OtherVars, posts, comments>>

\* verify_email_get up to its first await and the test that follows it:
\* jwt.decode, user_db.get, "if user.is_verified"
verify_email_get_get(t) ==
    /\ At(t, "verify", "get")
    /\ LET r == VerifyTry(tasks[t].token)
       IN  tasks' = [tasks EXCEPT ![t] =
                        IF r.raised # ""
                        THEN [Ends(t, "return", 200) EXCEPT !.page = VerifyExcept(r.raised)]
                        ELSE IF r.page = "already"
                        THEN [Ends(t, "return", 200) EXCEPT !.page = "already", !.user = r.user]
                        ELSE [tasks[t] EXCEPT !.pc = "update", !.user = r.user,
                                              !.verified = users[r.user].is_verified]]
    /\ UNCHANGED <<OtherVars, posts, comments>>

\* the second await: user_db.update(user, {"is_verified": True}) sends the
\* UPDATE and commits; then the success page
verify_email_get_update(t) ==
    /\ At(t, "verify", "update")
    /\ users' = user_db_update(tasks[t].user)
    /\ tasks' = [tasks EXCEPT ![t] = [Ends(t, "return", 200) EXCEPT !.page = "success"]]
    /\ UNCHANGED <<now, issued, used, resp, session, out, posts, comments>>

\* the links mailed to the two users, and a token nobody signed
VerifyLinks == {on_after_register(u) : u \in UserIds} \cup {Garbage}

InitVerify == InitSite(FALSE)

VerifyStep(t) ==
    \/ \E token \in VerifyLinks : get_user_db(t, token)
    \/ verify_email_get_get(t)
    \/ verify_email_get_update(t)
    \/ get_db_session_finally(t)

NextVerify == \E t \in TaskIds : VerifyStep(t)

SpecVerify == InitVerify /\ [][NextVerify]_vars

----------------------------------------------------------------------------
(* delete_file_from_imagekit on its own: the coroutines that one request   *)
(* gathers, each with a URL and an answer of the media store               *)

\* a URL of the store, one of another host, the empty string and None
CleanupUrls == ImageKitUrls \cup {"cdn/x", "", Null}

\* the coroutine has no await: it runs from its first line to its return
run_delete_file_from_imagekit(t, file_url, store) ==
    /\ tasks[t].pc = "idle"
    /\ LET ran == delete_file_from_imagekit(file_url, store)
       IN  tasks' = [tasks EXCEPT ![t] =
              [NoTask EXCEPT !.op = "delete_file_from_imagekit", !.pc = "done",
                             !.file_url = file_url, !.store = store,
                             !.calls = ran.calls,
                             !.exit = IF ran.raised THEN "Exception" ELSE "return"]]
    /\ UNCHANGED <<OtherVars, posts, comments>>

NextCleanup ==
    \E t \in TaskIds, file_url \in CleanupUrls, store \in StoreOutcomes :
        run_delete_file_from_imagekit(t, file_url, store)

SpecCleanup == InitOverlap /\ [][NextCleanup]_vars

----------------------------------------------------------------------------
(* Vocabulary of the properties *)

IssuedAs(kind, tok) == \E i \in issued : i.kind = kind /\ i.tok = tok
IsAuthToken(tok) == IssuedAs("access", tok) \/ IssuedAs("refresh", tok)
Signed(tok) == tok.form = "jwt" /\ tok.key = JWT_SECRET
RowExists(id) == id \in UserIds /\ users[id].exists
RowActive(id) == RowExists(id) /\ users[id].is_active
NoTokenIssued == resp.access_token = NoToken /\ resp.set_cookie = NoToken

MatchesActiveUser(username, password) ==
    \E u \in UserIds : /\ users[u].exists
                       /\ Email(u) = username
                       /\ users[u].hashed_password = PasswordHash(password)
                       /\ users[u].is_active

----------------------------------------------------------------------------
\* C1: login succeeds, with an access token and the refresh cookie, exactly
\* for the (email, password) pairs of an active stored user; every other
\* attempt ends 400 LOGIN_BAD_CREDENTIALS with no token and no cookie.
C1_LoginOutcome ==
    resp.op = "login" =>
        IF MatchesActiveUser(resp.req.username, resp.req.password)
        THEN /\ resp.status = 200
             /\ Signed(resp.access_token) /\ Signed(resp.set_cookie)
             /\ Email(resp.access_token.sub) = resp.req.username
             /\ Email(resp.set_cookie.sub) = resp.req.username
        ELSE /\ resp.status = 400
             /\ resp.detail = "LOGIN_BAD_CREDENTIALS"
             /\ NoTokenIssued

\* a login with the right password of a deactivated user, refused
C1_Witness ==
    /\ resp.op = "login"
    /\ resp.status = 400
    /\ \E u \in UserIds : /\ users[u].exists /\ ~users[u].is_active
                          /\ Email(u) = resp.req.username
                          /\ users[u].hashed_password = PasswordHash(resp.req.password)

\* a login that succeeded
C1_SuccessReached == resp.op = "login" /\ resp.status = 200

----------------------------------------------------------------------------
\* C2: an access token handed out at second t is refused by the gate of the
\* protected route at every time later than t + 900, and a refresh token
\* handed out at t is refused by /auth/refresh at every time later than
\* t + 604800.
C2_ExpiredTokensRejected ==
    /\ resp.op = "protected" =>
         \A i \in issued :
            ( /\ i.kind = "access"
              /\ now > i.at + ACCESS_LIFETIME
              /\ i.tok \in {resp.req.bearer, resp.req.cookie}
              /\ {resp.req.bearer, resp.req.cookie} \subseteq {i.tok, NoToken} )
            => resp.status = 401 /\ resp.user = NoUser
    /\ resp.op = "refresh" =>
         \A i \in issued :
            ( /\ i.kind = "refresh"
              /\ now > i.at + REFRESH_LIFETIME
              /\ resp.req.cookie = i.tok )
            => resp.status = 401 /\ NoTokenIssued

\* a refresh token of a user who is still there and active, refused for its age alone
C2_Witness ==
    /\ resp.op = "refresh"
    /\ resp.status = 401
    /\ \E i \in issued : /\ i.kind = "refresh"
                         /\ resp.req.cookie = i.tok
                         /\ now > i.at + REFRESH_LIFETIME
                         /\ RowActive(i.tok.sub)

\* an access token of an active user, refused as a bearer for its age alone
C2_AccessWitness ==
    /\ resp.op = "protected"
    /\ resp.status = 401
    /\ \E i \in issued : /\ i.kind = "access"
                         /\ resp.req.bearer = i.tok
                         /\ now > i.at + ACCESS_LIFETIME
                         /\ RowActive(i.tok.sub)

----------------------------------------------------------------------------
\* C3: the gate of a protected route takes an access token only: a request
\* with no unexpired access token that carries a refresh token (as cookie or
\* as bearer) is Unauthorized, and /auth/refresh refuses an access token put
\* in the refresh_token cookie.
UnexpiredAccess(tok) == \E i \in issued : i.kind = "access" /\ i.tok = tok /\ now < i.tok.exp

C3_AccessTokenOnly ==
    /\ ( /\ resp.op = "protected"
         /\ ~UnexpiredAccess(resp.req.bearer)
         /\ ~UnexpiredAccess(resp.req.cookie)
         /\ IssuedAs("refresh", resp.req.bearer) \/ IssuedAs("refresh", resp.req.cookie) )
       => resp.status = 401
    /\ ( /\ resp.op = "refresh"
         /\ IssuedAs("access", resp.req.cookie)
         /\ ~IssuedAs("refresh", resp.req.cookie) )
       => resp.status = 401

----------------------------------------------------------------------------
\* C4 (as stated): an access or refresh token given to /auth/verify yields
\* the invalid outcome and never sets is_verified; a verification token is
\* never accepted by the gate or by /auth/refresh.
VerifyTokenRefused ==
    /\ ( /\ resp.op = "protected"
         /\ IssuedAs("verify", resp.req.bearer) \/ IssuedAs("verify", resp.req.cookie)
         /\ \A c \in {resp.req.bearer, resp.req.cookie} : c = NoToken \/ IssuedAs("verify", c) )
       => resp.status = 401 /\ resp.user = NoUser
    /\ (resp.op = "refresh" /\ IssuedAs("verify", resp.req.cookie))
       => resp.status = 401 /\ NoTokenIssued

AuthTokenNeverVerifies ==
    (resp.op = "verify" /\ IsAuthToken(resp.req.token))
        => /\ users = resp.before
           /\ resp.writes = 0

C4_Original ==
    /\ VerifyTokenRefused
    /\ (resp.op = "verify" /\ IsAuthToken(resp.req.token)) => resp.outcome = "invalid"
    /\ AuthTokenNeverVerifies

\* C4 (amended): an access or refresh token given to /auth/verify never sets
\* is_verified: it yields the invalid outcome while its own expiry has not
\* elapsed and the expired outcome from then on; a verification token is
\* never accepted by the gate or by /auth/refresh.
C4_TokenClassesApart ==
    /\ VerifyTokenRefused
    /\ (resp.op = "verify" /\ IsAuthToken(resp.req.token))
         => resp.outcome = IF now < resp.req.token.exp THEN "invalid" ELSE "expired"
    /\ AuthTokenNeverVerifies

\* an access token of an existing, unverified user, given to /auth/verify
\* after its 900 seconds
C4_Witness ==
    /\ resp.op = "verify"
    /\ IssuedAs("access", resp.req.token)
    /\ RowExists(resp.req.token.sub)
    /\ ~users[resp.req.token.sub].is_verified
    /\ resp.outcome = "expired"

\* a verification token, still valid for /auth/verify, refused as a credential
C4_GateWitness ==
    /\ resp.op = "protected"
    /\ IssuedAs("verify", resp.req.bearer)
    /\ now < resp.req.bearer.exp
    /\ RowActive(resp.req.bearer.sub)
    /\ resp.status = 401

----------------------------------------------------------------------------
\* C5: every successful /auth/refresh sets a refresh token different from
\* the one submitted, also when it runs in the second the submitted token
\* was issued in.
C5_RefreshRotates ==
    (resp.op = "refresh" /\ resp.status = 200) => resp.set_cookie # resp.req.cookie

----------------------------------------------------------------------------
\* C6: /auth/refresh ends 401, with no access token and no new cookie, when
\* the cookie is absent, the token malformed or expired, its user gone or
\* inactive; the handler ends with no status other than 200 and 401.
RefreshMustFail(c) ==
    \/ c = NoToken
    \/ ~Signed(c)
    \/ c.exp <= now
    \/ ~RowExists(c.sub)
    \/ ~users[c.sub].is_active

C6_RefreshFailsWith401 ==
    resp.op = "refresh" =>
        /\ resp.status \in {200, 401}
        /\ RefreshMustFail(resp.req.cookie) => resp.status = 401
        /\ resp.status = 401 => NoTokenIssued

\* an unexpired refresh token of a user who has been deactivated, refused
C6_Witness ==
    /\ resp.op = "refresh"
    /\ resp.status = 401
    /\ IssuedAs("refresh", resp.req.cookie)
    /\ now < resp.req.cookie.exp
    /\ RowExists(resp.req.cookie.sub)
    /\ ~users[resp.req.cookie.sub].is_active

\* an unexpired refresh token of a user who has been deleted, refused
C6_DeletedWitness ==
    /\ resp.op = "refresh"
    /\ resp.status = 401
    /\ IssuedAs("refresh", resp.req.cookie)
    /\ now < resp.req.cookie.exp
    /\ ~RowExists(resp.req.cookie.sub)

----------------------------------------------------------------------------
\* C7 (as stated): a refresh token issued at t is accepted by /auth/refresh
\* at every time up to t + 604800 while its user exists and is active,
\* whatever rotations and logouts came in between; logout changes no
\* server-side state.
LogoutKeepsServerState == resp.op = "logout" => users = resp.before /\ resp.writes = 0

C7_Original ==
    /\ resp.op = "refresh" =>
            \A i \in issued :
               ( /\ i.kind = "refresh"
                 /\ resp.req.cookie = i.tok
                 /\ now <= i.at + REFRESH_LIFETIME
                 /\ RowActive(i.tok.sub) )
               => resp.status = 200
    /\ LogoutKeepsServerState

\* C7 (amended): a refresh token issued during clock second t is accepted by
\* /auth/refresh at every time before second t + 604800 begins (in that very
\* second it has expired) while its user exists and is active, whatever
\* rotations and logouts came in between; logout changes no server-side state.
C7_NoServerSideInvalidation ==
    /\ resp.op = "refresh" =>
            \A i \in issued :
               ( /\ i.kind = "refresh"
                 /\ resp.req.cookie = i.tok
                 /\ now < i.at + REFRESH_LIFETIME
                 /\ RowActive(i.tok.sub) )
               => /\ resp.status = 200
                  /\ Signed(resp.access_token) /\ Signed(resp.set_cookie)
                  /\ resp.access_token.sub = i.tok.sub
    /\ LogoutKeepsServerState

\* a refresh token that was already rotated and logged out, accepted again in
\* the last second of its life
C7_Witness ==
    /\ resp.op = "refresh"
    /\ resp.status = 200
    /\ [tok |-> resp.req.cookie, how |-> "rotated"] \in used
    /\ [tok |-> resp.req.cookie, how |-> "logout"] \in used
    /\ \E i \in issued : /\ i.kind = "refresh" /\ i.tok = resp.req.cookie
                         /\ now = i.at + REFRESH_LIFETIME - 1

----------------------------------------------------------------------------
\* C8: redeeming a valid verification token of an unverified user sets
\* is_verified and returns success; redeeming it when the user is verified
\* returns already-verified and writes nothing; no redemption takes
\* is_verified from true to false.
ValidVerifyTokenFor(tok, u) ==
    /\ Signed(tok) /\ tok.aud = VERIFY_AUD /\ now < tok.exp
    /\ tok.sub = u /\ resp.before[u].exists

C8_RedeemIdempotent ==
    resp.op = "verify" =>
        /\ \A u \in UserIds :
              ValidVerifyTokenFor(resp.req.token, u) =>
                 IF ~resp.before[u].is_verified
                 THEN /\ resp.outcome = "success"
                      /\ resp.writes = 1
                      /\ users[u].is_verified
                 ELSE /\ resp.outcome = "already"
                      /\ resp.writes = 0
                      /\ users = resp.before
        /\ \A u \in UserIds : resp.before[u].is_verified => users[u].is_verified

\* the second redemption of a token that was redeemed with success before
C8_Witness ==
    /\ resp.op = "verify"
    /\ resp.outcome = "already"
    /\ resp.writes = 0
    /\ users = resp.before
    /\ [tok |-> resp.req.token, how |-> "redeemed"] \in used

----------------------------------------------------------------------------
\* C9 (as stated): a correctly signed verification token past its expiry
\* yields the expired outcome; a malformed, wrongly signed or wrong-audience
\* token yields the invalid outcome; both leave every user as it was.
FailedRedeemWritesNothing ==
    (resp.op = "verify" /\ resp.outcome \in {"expired", "invalid"})
        => users = resp.before /\ resp.writes = 0

ExpiredVerifyTokenPage ==
    ( /\ resp.op = "verify"
      /\ Signed(resp.req.token)
      /\ resp.req.token.aud = VERIFY_AUD
      /\ resp.req.token.exp <= now )
    => resp.outcome = "expired"

C9_Original ==
    /\ ExpiredVerifyTokenPage
    /\ (resp.op = "verify" /\ (~Signed(resp.req.token) \/ resp.req.token.aud # VERIFY_AUD))
         => resp.outcome = "invalid"
    /\ FailedRedeemWritesNothing

\* C9 (amended): a correctly signed verification token past its expiry
\* yields the expired outcome; a malformed or wrongly signed token, and a
\* correctly signed wrong-audience token whose own expiry has not elapsed,
\* yields the invalid outcome (a correctly signed wrong-audience token past
\* its expiry yields the expired outcome); all leave every user as it was.
C9_ExpiredIsNotInvalid ==
    /\ ExpiredVerifyTokenPage
    /\ (resp.op = "verify" /\ ~Signed(resp.req.token)) => resp.outcome = "invalid"
    /\ (resp.op = "verify" /\ Signed(resp.req.token) /\ resp.req.token.aud # VERIFY_AUD)
         => resp.outcome = IF now < resp.req.token.exp THEN "invalid" ELSE "expired"
    /\ FailedRedeemWritesNothing

\* the registration token of an existing unverified user, redeemed too late
C9_Witness ==
    /\ resp.op = "verify"
    /\ IssuedAs("verify", resp.req.token)
    /\ resp.req.token.exp <= now
    /\ RowExists(resp.req.token.sub)
    /\ ~users[resp.req.token.sub].is_verified
    /\ resp.outcome = "expired"

----------------------------------------------------------------------------
\* C10: a verification token that parses (signature, audience, expiry) whose
\* subject names no stored user yields the invalid outcome, not the generic
\* error outcome.
C10_UnknownUserIsInvalid ==
    ( /\ resp.op = "verify"
      /\ Signed(resp.req.token)
      /\ resp.req.token.aud = VERIFY_AUD
      /\ now < resp.req.token.exp
      /\ ~RowExists(resp.req.token.sub) )
    => resp.outcome = "invalid"

----------------------------------------------------------------------------
\* C11: GET /auth/verify writes to the users table on the success outcome
\* only, and then the table differs from the one the request found in
\* nothing but is_verified of the user the token's subject names; on every
\* other outcome (already verified, expired, invalid, error) the table is as
\* the request found it.
C11_VerifyWritesOnlyTheFlag ==
    resp.op = "verify" =>
        IF resp.outcome = "success"
        THEN /\ resp.req.token.sub \in UserIds
             /\ resp.before[resp.req.token.sub].exists
             /\ users = [resp.before EXCEPT ![resp.req.token.sub].is_verified = TRUE]
             /\ resp.writes = 1
        ELSE /\ resp.outcome \in {"already", "expired", "invalid", "error"}
             /\ users = resp.before
             /\ resp.writes = 0

\* a success for a user who had been deactivated, next to another user who
\* is still unverified
C11_Witness ==
    /\ resp.op = "verify"
    /\ resp.outcome = "success"
    /\ ~users[resp.req.token.sub].is_active
    /\ \E o \in UserIds \ {resp.req.token.sub} : users[o].exists /\ ~users[o].is_verified

\* the error outcome: a valid token whose user has been deleted
C11_ErrorWitness ==
    /\ resp.op = "verify"
    /\ resp.outcome = "error"
    /\ \E o \in UserIds : users[o].exists

----------------------------------------------------------------------------
\* C12: whatever the mail transport does during registration, the
\* after-register hook ends without raising, registration answers 201, and
\* the row it created is in the users table.
C12_MailFailureKeepsRegistration ==
    resp.op = "register" =>
        /\ resp.detail = ""
        /\ resp.status = 201
        /\ users[resp.user].exists
        /\ ~resp.before[resp.user].exists
        /\ users[resp.user].hashed_password = PasswordHash(resp.req.password)

\* a registration during which the transport failed
C12_Witness ==
    /\ resp.op = "register"
    /\ resp.outcome # "sent"
    /\ resp.status = 201
    /\ users[resp.user].exists

\* who registered while the transport was down can log in all the same
C12_LoginWitness ==
    /\ resp.op = "login"
    /\ resp.status = 200
    /\ \A i \in issued : i.kind # "verify"

----------------------------------------------------------------------------
(* Vocabulary of the properties of the routers *)

BlogOps == {"create_post", "update_post", "delete_post",
            "create_comment", "update_comment", "delete_comment"}
PostGuardedOps == {"update_post", "delete_post"}
CommentGuardedOps == {"update_comment", "delete_comment"}

\* the caller the gate resolved is an active verified user
CallerVerified ==
    /\ resp.user \in UserIds
    /\ users[resp.user].exists /\ users[resp.user].is_active /\ users[resp.user].is_verified

\* the row a guarded request names, as the request found it
Target ==
    IF resp.op \in PostGuardedOps THEN out.posts[out.id] ELSE out.comments[out.id]

StoresUntouched == posts = out.posts /\ comments = out.comments
NothingScheduled == out.scheduled = <<>> /\ out.calls = <<>>

\* the entries of delete_tasks on account of a field, and those that name a URL
ScheduledFor(field) == {i \in DOMAIN out.scheduled : out.scheduled[i].field = field}
Attempts(url) == {i \in DOMAIN out.scheduled : out.scheduled[i].url = url}

MediaFields == {"image_url", "video_url"}

----------------------------------------------------------------------------
\* C13: update and delete of a post and of a comment by an active verified
\* caller end 404 when no row has the id, 403 when the row is there and its
\* owner_id is not the caller's id; in both cases posts and comments are
\* as the request found them and no media deletion is scheduled.
C13_NotFoundThenForbidden ==
    (resp.op \in PostGuardedOps \cup CommentGuardedOps /\ CallerVerified) =>
        /\ ~Target.exists => resp.status = 404
        /\ (Target.exists /\ Target.owner_id # resp.user) => resp.status = 403
        /\ resp.status \in {403, 404} => StoresUntouched /\ NothingScheduled

\* a verified user told 403 on the delete of another user's post that has an image
C13_Witness ==
    /\ resp.op = "delete_post"
    /\ CallerVerified
    /\ resp.status = 403
    /\ Truthy(posts[out.id].image_url)

\* 404 for the update of a comment that has been deleted
C13_NotFoundWitness ==
    /\ resp.op = "update_comment"
    /\ CallerVerified
    /\ resp.status = 404
    /\ out.comments[out.id].born

\* 403 for the update of another user's comment
C13_CommentWitness ==
    /\ resp.op = "update_comment"
    /\ CallerVerified
    /\ resp.status = 403

----------------------------------------------------------------------------
\* C14 (as stated): through the posts and comments endpoints, a row of
\* posts or comments changes or goes only in a request whose caller is
\* active, verified and the owner of that row, and a row that appears has
\* the active verified caller as owner_id.
PostWrittenByOwner(p) ==
    posts[p] # out.posts[p] =>
        /\ CallerVerified
        /\ IF out.posts[p].exists
           THEN out.posts[p].owner_id = resp.user
           ELSE posts[p].exists /\ posts[p].owner_id = resp.user

\* the comment went with its post, which the owner of the post deleted
Cascaded(c) ==
    /\ resp.op = "delete_post"
    /\ resp.writes = 1
    /\ out.comments[c].exists /\ ~comments[c].exists
    /\ out.comments[c].post_id = out.id
    /\ out.posts[out.id].owner_id = resp.user

C14_Original ==
    resp.op \in BlogOps =>
        /\ \A p \in PostIds : PostWrittenByOwner(p)
        /\ \A c \in CommentIds :
              comments[c] # out.comments[c] =>
                 /\ CallerVerified
                 /\ IF out.comments[c].exists
                    THEN out.comments[c].owner_id = resp.user
                    ELSE comments[c].exists /\ comments[c].owner_id = resp.user

\* C14 (amended): as stated for posts, for new comments and for changes of
\* a comment; a comment goes either in a request of its active verified
\* owner or, whoever owns it, together with its post in the delete_post of
\* the post's active verified owner.
C14_OwnerOrCascade ==
    resp.op \in BlogOps =>
        /\ \A p \in PostIds : PostWrittenByOwner(p)
        /\ \A c \in CommentIds :
              comments[c] # out.comments[c] =>
                 /\ CallerVerified
                 /\ IF out.comments[c].exists
                    THEN \/ out.comments[c].owner_id = resp.user
                         \/ Cascaded(c)
                    ELSE comments[c].exists /\ comments[c].owner_id = resp.user
        /\ resp.op # "delete_post" =>
              \A c \in CommentIds :
                 (out.comments[c].exists /\ out.comments[c].owner_id # resp.user)
                     => comments[c] = out.comments[c]

\* the owner of a post deletes it, and another user's comment goes with it
C14_Witness ==
    /\ resp.op = "delete_post"
    /\ resp.status = 204
    /\ \E c \in CommentIds : Cascaded(c) /\ out.comments[c].owner_id # resp.user

\* the owner of a post, deactivated since, is kept from changing it
C14_DeactivatedOwnerWitness ==
    /\ resp.op = "update_post"
    /\ resp.status = 401
    /\ posts[out.id].exists
    /\ posts[out.id].owner_id = resp.req.bearer.sub

----------------------------------------------------------------------------
\* C15: create_post by an active unverified user ends 403, by an inactive
\* user 401, and in both cases the posts table is as the request found it.
C15_UnverifiedIsNotInactive ==
    (resp.op = "create_post" /\ RowExists(resp.req.bearer.sub)) =>
        /\ ~users[resp.req.bearer.sub].is_active
              => resp.status = 401 /\ posts = out.posts
        /\ (users[resp.req.bearer.sub].is_active /\ ~users[resp.req.bearer.sub].is_verified)
              => resp.status = 403 /\ posts = out.posts

\* an active unverified user is refused
C15_Witness ==
    /\ resp.op = "create_post"
    /\ RowActive(resp.req.bearer.sub)
    /\ ~users[resp.req.bearer.sub].is_verified
    /\ resp.status = 403

\* an inactive verified user is refused
C15_InactiveWitness ==
    /\ resp.op = "create_post"
    /\ RowExists(resp.req.bearer.sub)
    /\ ~users[resp.req.bearer.sub].is_active
    /\ users[resp.req.bearer.sub].is_verified
    /\ resp.status = 401

----------------------------------------------------------------------------
\* C16: in an update of a post by its owner whose commit went through, a
\* field image_url or video_url that goes from a non-null value to a
\* different value brings exactly one deletion of the old URL and none of
\* the new URL; a field set to the value it had, or left out of the
\* payload, brings no deletion on its account.
C16_UpdateDeletesOldUrlOnce ==
    (resp.op = "update_post" /\ resp.writes = 1) =>
        \A f \in MediaFields :
            LET old == out.posts[out.id][f]
                new == out.payload[f]
            IN  /\ (new # Unset /\ old # Null /\ new # old)
                      => /\ Cardinality(Attempts(old)) = 1
                         /\ new # Null => Attempts(new) = {}
                /\ (new = Unset \/ new = old) => ScheduledFor(f) = {}

\* the part of C16 that is about one field alone: a field that goes from a
\* non-empty value to a different value brings exactly one entry of
\* delete_tasks on its account, for the old URL
C16_PerField ==
    (resp.op = "update_post" /\ resp.writes = 1) =>
        \A f \in MediaFields :
            LET old == out.posts[out.id][f]
                new == out.payload[f]
            IN  IF new # Unset /\ Truthy(old) /\ new # old
                THEN /\ Cardinality(ScheduledFor(f)) = 1
                     /\ \A i \in ScheduledFor(f) : out.scheduled[i].url = old
                ELSE ScheduledFor(f) = {}

\* image_url and video_url change places: each old URL is deleted, and each
\* is the new value of the other field
C16_SwapReached ==
    /\ resp.op = "update_post"
    /\ resp.writes = 1
    /\ Truthy(posts[out.id].image_url)
    /\ posts[out.id].image_url = out.posts[out.id].video_url
    /\ Attempts(posts[out.id].image_url) # {}

----------------------------------------------------------------------------
\* C17 (as stated): in a delete of a post by its owner, the media deletions
\* scheduled are those of the non-null values image_url and video_url had
\* before the row went, and they are scheduled only when the deletion of
\* the row has committed; when it has not, nothing is scheduled.
DeleteSchedules(wanted(_)) ==
    (resp.op = "delete_post" /\ out.commit # "") =>
        IF out.commit = "ok"
        THEN /\ ~posts[out.id].exists
             /\ \A f \in MediaFields :
                   IF wanted(out.posts[out.id][f])
                   THEN /\ Cardinality(ScheduledFor(f)) = 1
                        /\ \A i \in ScheduledFor(f) :
                              out.scheduled[i].url = out.posts[out.id][f]
                   ELSE ScheduledFor(f) = {}
             /\ \A i \in DOMAIN out.scheduled : out.scheduled[i].field \in MediaFields
        ELSE /\ posts = out.posts
             /\ NothingScheduled

NonNull(v) == v # Null

C17_Original == DeleteSchedules(NonNull)

\* C17 (amended): as stated, with "non-null and non-empty" for "non-null":
\* a field that holds the empty string brings no deletion.
C17_DeleteSchedulesAfterCommit == DeleteSchedules(Truthy)

\* a post with two URLs is deleted and both deletions are scheduled
C17_Witness ==
    /\ resp.op = "delete_post"
    /\ out.commit = "ok"
    /\ Truthy(out.posts[out.id].image_url)
    /\ Truthy(out.posts[out.id].video_url)
    /\ Len(out.scheduled) = 2

\* the deletion of a post with a URL does not commit
C17_FailedCommitWitness ==
    /\ resp.op = "delete_post"
    /\ out.commit = "fails"
    /\ Truthy(posts[out.id].image_url)
    /\ resp.status = 500

----------------------------------------------------------------------------
\* C18: whatever the media store does during the cleanup, an update or
\* delete of a post whose database change has committed keeps the change
\* and answers 200 with the updated post, or 204.
C18_CleanupNeverFailsRequest ==
    (resp.op \in PostGuardedOps /\ out.commit = "ok" /\ out.payload.title # Null) =>
        IF resp.op = "update_post"
        THEN /\ resp.status = 200
             /\ posts[out.id].exists
             /\ \A f \in MediaFields :
                   posts[out.id][f] = Field(out.payload[f], out.posts[out.id][f])
        ELSE /\ resp.status = 204
             /\ ~posts[out.id].exists

\* an update whose cleanup met a failing media store
C18_Witness ==
    /\ resp.op = "update_post"
    /\ resp.status = 200
    /\ out.scheduled # <<>>
    /\ out.store \in {"no client", "list_files raises", "no file", "delete_file raises"}
    /\ posts[out.id] # out.posts[out.id]

\* a delete whose cleanup met a raising delete_file
C18_DeleteWitness ==
    /\ resp.op = "delete_post"
    /\ resp.status = 204
    /\ out.store = "delete_file raises"
    /\ Len(out.calls) >= 2

----------------------------------------------------------------------------
\* C19: a URL whose deletion an update or delete of a post schedules is,
\* after the commit, neither image_url nor video_url of any post.
C19_OnlyOrphansDeleted ==
    resp.op \in PostGuardedOps =>
        \A i \in DOMAIN out.scheduled : \A p \in PostIds :
            posts[p].exists =>
                out.scheduled[i].url \notin {posts[p].image_url, posts[p].video_url}

----------------------------------------------------------------------------
\* C20: the admin login returns true, with user_id and user_email of the
\* user in the session, only for the email of a stored user with the
\* matching password who is active and superuser; in every other case it
\* returns false and the session is as the call found it.
AdminMayLogIn(u) ==
    /\ users[u].exists
    /\ Email(u) = resp.req.username
    /\ users[u].hashed_password = PasswordHash(resp.req.password)
    /\ users[u].is_active /\ users[u].is_superuser

C20_AdminLogin ==
    resp.op = "admin_login" =>
        IF \E u \in UserIds : AdminMayLogIn(u)
        THEN /\ resp.outcome = "True"
             /\ \E u \in UserIds :
                   AdminMayLogIn(u) /\ session = [user_id |-> u, user_email |-> Email(u)]
        ELSE /\ resp.outcome = "False"
             /\ session = out.session

\* the part of C20 that is about the session: it is written only by a
\* login that returns true, and then with the user the credentials name
C20_SessionOnlyOnSuccess ==
    resp.op = "admin_login" =>
        IF \E u \in UserIds : AdminMayLogIn(u)
        THEN /\ resp.outcome = "True"
             /\ \E u \in UserIds :
                   AdminMayLogIn(u) /\ session = [user_id |-> u, user_email |-> Email(u)]
        ELSE /\ resp.outcome \in {"False", "raises"}
             /\ resp.outcome = "raises" => resp.req.password = Null
             /\ session = out.session

\* an active user with the right password who is no superuser is refused
\* while another user's session is open
C20_RefusedReached ==
    /\ resp.op = "admin_login"
    /\ resp.outcome = "False"
    /\ session # NoSession
    /\ \E u \in UserIds : /\ Email(u) = resp.req.username
                          /\ users[u].hashed_password = PasswordHash(resp.req.password)
                          /\ users[u].is_active /\ ~users[u].is_superuser

----------------------------------------------------------------------------
\* C21: authenticate returns true only if the session's user_id names a
\* user that exists, is active and is superuser at that request; if the
\* session holds a user_id and one of the tests fails, the same call
\* clears the session; and from then on every authenticate on that
\* session returns false until a login succeeds anew, whatever the user's
\* row has become in the meantime.
SessionUserPrivileged(s) ==
    /\ s.user_id # ""
    /\ users[s.user_id].exists
    /\ users[s.user_id].is_active
    /\ users[s.user_id].is_superuser

ClearedSinceLogin(s) == [tok |-> s, how |-> "cleared"] \in used

C21_AuthenticateRevalidates ==
    resp.op = "admin_authenticate" =>
        /\ resp.outcome = "True" => SessionUserPrivileged(out.session)
        /\ (out.session.user_id # "" /\ ~SessionUserPrivileged(out.session)) =>
              resp.outcome = "False" /\ session = NoSession
        /\ ClearedSinceLogin(out.session) => resp.outcome = "False"

\* what holds of one call: true exactly for a privileged user; a session
\* with user_id whose user fails a test is cleared in that call, and the
\* browser is left without it; a session without user_id is left alone
C21_ClearedInTheSameCall ==
    resp.op = "admin_authenticate" =>
        /\ resp.outcome = "True" <=> SessionUserPrivileged(out.session)
        /\ resp.outcome \in {"True", "False"}
        /\ resp.outcome = "True" => session = out.session
        /\ (out.session.user_id # "" /\ resp.outcome = "False") =>
              session = NoSession /\ ClearedSinceLogin(out.session)
        /\ out.session.user_id = "" => session = NoSession

\* as long as the browser sends what the last response left it, a cleared
\* session stays without user_id until a login returns true
C21_BrowserStaysCleared ==
    [][(session.user_id = "" /\ session'.user_id # "") =>
          \/ resp'.op = "admin_login" /\ resp'.outcome = "True"
          \/ resp'.op = "admin_authenticate" /\ out'.session # session]_vars

\* authenticate found the session's user without a privilege and cleared
\* the session
C21_ClearedReached ==
    /\ resp.op = "admin_authenticate"
    /\ resp.outcome = "False"
    /\ out.session.user_id # ""
    /\ session = NoSession

\* the cookie of a session that authenticate cleared is sent again after
\* the user got the privileges back, with no login in between: true
C21_ReplayReached ==
    /\ resp.op = "admin_authenticate"
    /\ resp.outcome = "True"
    /\ ClearedSinceLogin(out.session)

\* the session's user was deleted
C21_DeletedReached ==
    /\ resp.op = "admin_authenticate"
    /\ out.session.user_id # ""
    /\ ~users[out.session.user_id].exists
    /\ session = NoSession

----------------------------------------------------------------------------
\* C22: every session that get_db_session hands to a request is closed in
\* the end, however the request leaves (return, HTTPException, an
\* unexpected exception, and also a cancelled task); when the request ends
\* with an exception, the session receives rollback and then close, and
\* nothing after close.
SessionHanded(t) == tasks[t].db # <<>>

SessionClosed(t) ==
    /\ tasks[t].pc = "done"
    /\ tasks[t].db[Len(tasks[t].db)] = "close"

SessionDiscipline(t) ==
    /\ tasks[t].pc = "done" =>
          tasks[t].db = IF tasks[t].exit \in {"HTTPException", "Exception"}
                        THEN <<"session", "rollback", "close">>
                        ELSE <<"session", "close">>
    /\ tasks[t].pc # "done" =>
          \A i \in 1 .. Len(tasks[t].db) : tasks[t].db[i] # "close"

C22_SessionAlwaysClosed ==
    /\ [](\A t \in TaskIds : SessionDiscipline(t))
    /\ \A t \in TaskIds : SessionHanded(t) ~> SessionClosed(t)

\* the commit of an INSERT failed in the database: rollback, then close
C22_Witness ==
    \E t \in TaskIds :
        /\ tasks[t].pc = "done"
        /\ tasks[t].exit = "Exception"
        /\ tasks[t].status = 500
        /\ tasks[t].db = <<"session", "rollback", "close">>

\* the other exit paths: a return, an HTTPException of the guard and one of
\* the gate, a cancelled task
C22_ReturnWitness ==
    \E t \in TaskIds : SessionClosed(t) /\ tasks[t].exit = "return"

C22_HttpErrorWitness ==
    \E t, r \in TaskIds :
        /\ SessionClosed(t) /\ tasks[t].exit = "HTTPException" /\ tasks[t].status = 403
        /\ SessionClosed(r) /\ tasks[r].exit = "HTTPException" /\ tasks[r].status = 401

C22_CancelledWitness ==
    \E t \in TaskIds :
        /\ SessionClosed(t)
        /\ tasks[t].exit = "CancelledError"
        /\ tasks[t].db = <<"session", "close">>

----------------------------------------------------------------------------
\* C23: no request on posts or comments changes the owner_id of a post, or
\* the owner_id or post_id of a comment, that exists before and after it;
\* an update changes the one row it names, and in it only the fields its
\* payload carries.
PostFields == {"title", "image_url", "video_url"}

OwnersKept ==
    /\ \A p \in PostIds :
          (posts[p].exists /\ posts'[p].exists) => posts'[p].owner_id = posts[p].owner_id
    /\ \A c \in CommentIds :
          (comments[c].exists /\ comments'[c].exists) =>
              /\ comments'[c].owner_id = comments[c].owner_id
              /\ comments'[c].post_id = comments[c].post_id

UpdateWritesPayloadOnly ==
    /\ (Idle /\ resp'.op = "update_post") =>
          /\ comments' = comments
          /\ \A p \in PostIds :
                IF p = out'.id /\ resp'.status = 200
                THEN /\ posts'[p].exists /\ posts'[p].born
                     /\ \A f \in PostFields :
                           posts'[p][f] = IF out'.payload[f] = Unset THEN posts[p][f]
                                          ELSE out'.payload[f]
                ELSE posts'[p] = posts[p]
    /\ (Idle /\ resp'.op = "update_comment") =>
          /\ posts' = posts
          /\ \A c \in CommentIds :
                IF c = out'.id /\ resp'.status = 200
                THEN /\ comments'[c].exists /\ comments'[c].born
                     /\ comments'[c].content = IF out'.payload.content = Unset
                                               THEN comments[c].content
                                               ELSE out'.payload.content
                ELSE comments'[c] = comments[c]

C23_CommentWitness ==
    /\ resp.op = "update_comment"
    /\ resp.status = 200
    /\ comments[out.id].content # out.comments[out.id].content
    /\ comments[out.id].owner_id = out.comments[out.id].owner_id
    /\ comments[out.id].post_id = out.comments[out.id].post_id
    /\ posts[comments[out.id].post_id].owner_id # comments[out.id].owner_id

----------------------------------------------------------------------------
\* C24: when requests to /auth/verify with valid tokens of one unverified
\* user overlap, at most one of them writes is_verified and shows the
\* success page, and every other one shows the already-verified page.
Redeems(t, u) ==
    /\ tasks[t].op = "verify"
    /\ tasks[t].token = on_after_register(u)
    /\ tasks[t].pc \in {"ended", "done"}

C24_VerifiedWrittenOnce ==
    \A u \in UserIds :
        LET redeemed == {t \in TaskIds : Redeems(t, u)}
            wrote == {t \in redeemed : tasks[t].page = "success"}
        IN  /\ Cardinality(wrote) <= 1
            /\ \A t \in redeemed \ wrote : tasks[t].page = "already"

\* two requests for one user ran one after the other: one success page,
\* one already-verified page
C24_SequentialReached ==
    \E u \in UserIds, t, r \in TaskIds :
        /\ Redeems(t, u) /\ tasks[t].page = "success"
        /\ Redeems(r, u) /\ tasks[r].page = "already"

----------------------------------------------------------------------------
\* C25: every comment in the table names a post that is in the table, in
\* every state that overlapping create-comment and delete-post requests
\* can reach.
C25_CommentsHavePosts ==
    \A c \in CommentIds : comments[c].exists => posts[comments[c].post_id].exists

\* the same, as long as no commit ran on a database that does not enforce
\* the foreign key: there the INSERT, or the DELETE of the post, fails
FailedOnForeignKey(t) ==
    /\ tasks[t].exit = "Exception"
    /\ tasks[t].status = 500
    /\ tasks[t].pc \in {"ended", "finally", "done"}

\* a post was deleted with the comments under it
C25_CascadeReached ==
    \E t \in TaskIds, c \in CommentIds :
        /\ tasks[t].op = "delete_post" /\ tasks[t].exit = "return"
        /\ c \in tasks[t].seen
        /\ comments[c] = GoneComment
        /\ posts[tasks[t].id] = GonePost

\* the database refused the INSERT of a comment under a post deleted after
\* the existence check
C25_RefusedReached ==
    \E t, r \in TaskIds :
        /\ tasks[t].op = "create_comment" /\ FailedOnForeignKey(t)
        /\ tasks[r].op = "delete_post" /\ tasks[r].exit = "return"
        /\ tasks[r].id = tasks[t].id

----------------------------------------------------------------------------
\* C26: when two updates of the owner that set image_url of one post to
\* two new values have both finished, every URL that was committed as the
\* post's image_url and no longer is its value has had one deletion
\* scheduled, and no URL more than one.
Finished(t) == tasks[t].pc \in {"ended", "finally", "done"}

SetsImage(t) ==
    /\ tasks[t].op = "update_post"
    /\ Finished(t)
    /\ tasks[t].status = 200
    /\ tasks[t].arg.title = Unset

TimesScheduled(url) ==
    Cardinality({<<t, i>> \in TaskIds \X (1 .. 2) :
                    /\ i <= Len(tasks[t].scheduled)
                    /\ tasks[t].scheduled[i].url = url})

C26_OneDeletionPerReplacedUrl ==
    \A p \in PostIds :
        ( /\ \A t \in TaskIds : SetsImage(t) /\ tasks[t].id = p
          /\ \A t, r \in TaskIds : t # r => tasks[t].arg.image_url # tasks[r].arg.image_url )
        => LET was == {OnePost.image_url} \cup {tasks[t].arg.image_url : t \in TaskIds}
           IN  /\ \A url \in was \ {posts[p].image_url} : TimesScheduled(url) = 1
               /\ \A url \in was : TimesScheduled(url) <= 1

\* the two updates ran one after the other: each replaced URL was
\* scheduled once
C26_SequentialReached ==
    /\ \A t \in TaskIds : SetsImage(t) /\ tasks[t].id = 1
    /\ TimesScheduled("ik/a") = 1
    /\ TimesScheduled("ik/b") + TimesScheduled("ik/c") = 1

----------------------------------------------------------------------------
\* C27: when the commit of a post update fails, as it does for a payload
\* that sets title to null, the request ends in an error (500), the posts
\* table is as it was, and the request schedules no media deletion, for
\* the old image_url or any other; its session is rolled back.
UpdateFailed(t) ==
    /\ tasks[t].op = "update_post"
    /\ tasks[t].exit = "Exception"

FailedUpdateWritesNothing ==
    \A t \in TaskIds :
        /\ (At(t, "update_post", "commit") /\ tasks'[t] # tasks[t]) =>
              /\ tasks[t].arg.title = Null => UpdateFailed(t)'
              /\ UpdateFailed(t)' => /\ posts' = posts
                                     /\ tasks'[t].status = 500
                                     /\ tasks'[t].scheduled = <<>>
        /\ (UpdateFailed(t) /\ tasks'[t] # tasks[t]) =>
              /\ posts' = posts
              /\ tasks'[t].scheduled = <<>>
              /\ tasks'[t].status = 500
              /\ tasks'[t].pc = "done" => tasks'[t].db = <<"session", "rollback", "close">>

C27_FailedUpdateKeepsPost == [][FailedUpdateWritesNothing]_vars

\* an update that nulls the title and replaces the image failed: the post
\* has its title and its image, nothing is scheduled
C27_Witness ==
    \E t \in TaskIds :
        /\ UpdateFailed(t)
        /\ tasks[t].pc = "done"
        /\ tasks[t].status = 500
        /\ tasks[t].arg.title = Null
        /\ tasks[t].arg.image_url # tasks[t].old.image_url
        /\ Truthy(tasks[t].old.image_url)
        /\ posts[tasks[t].id].title = tasks[t].post.title
        /\ posts[tasks[t].id].image_url = tasks[t].old.image_url
        /\ tasks[t].scheduled = <<>>

\* the database failed the commit of an update with a payload it would
\* have taken
C27_DatabaseWitness ==
    \E t \in TaskIds :
        /\ UpdateFailed(t)
        /\ tasks[t].pc = "done"
        /\ tasks[t].arg.title = Unset
        /\ posts[tasks[t].id] = tasks[t].post
        /\ tasks[t].scheduled = <<>>

----------------------------------------------------------------------------
\* C28: one run of delete_file_from_imagekit sends at most one delete_file
\* to the media store, and sends it only when the client is there, the URL
\* is not empty and lies under the endpoint, and list_files, asked before,
\* found a file; in every other case it sends no delete_file and returns
\* without raising.
DeleteCalls(t) ==
    {i \in DOMAIN tasks[t].calls : tasks[t].calls[i].method = "delete_file"}

LookupFound(store) == store \in {"deleted", "delete_file raises"}

C28_AtMostOneGuardedDelete ==
    \A t \in TaskIds :
        tasks[t].op = "delete_file_from_imagekit" =>
            /\ Cardinality(DeleteCalls(t)) <= 1
            /\ \A i \in DeleteCalls(t) :
                  /\ tasks[t].store # "no client"
                  /\ tasks[t].file_url \notin {Null, ""}
                  /\ IsImageKitUrl(tasks[t].file_url)
                  /\ LookupFound(tasks[t].store)
                  /\ i = 2
                  /\ tasks[t].calls[1] = Call("list_files", tasks[t].file_url)
                  /\ tasks[t].calls[i].url = tasks[t].file_url
            /\ DeleteCalls(t) = {} => tasks[t].exit = "return"

\* one coroutine deleted the file of its URL while the other one, given a
\* URL of another host, called nothing
C28_Witness ==
    \E t, r \in TaskIds :
        /\ tasks[t].op = "delete_file_from_imagekit"
        /\ tasks[t].file_url = "ik/a"
        /\ tasks[t].calls = <<Call("list_files", "ik/a"), Call("delete_file", "ik/a")>>
        /\ tasks[r].op = "delete_file_from_imagekit"
        /\ tasks[r].file_url = "cdn/x"
        /\ tasks[r].store = "deleted"
        /\ tasks[r].calls = <<>>
        /\ tasks[r].exit = "return"

\* list_files raised, or found nothing: no delete_file, and a plain return
C28_NoFileWitness ==
    \E t, r \in TaskIds :
        /\ tasks[t].store = "list_files raises" /\ IsImageKitUrl(tasks[t].file_url)
        /\ tasks[t].calls = <<Call("list_files", tasks[t].file_url)>>
        /\ tasks[t].exit = "return"
        /\ tasks[r].store = "no file" /\ IsImageKitUrl(tasks[r].file_url)
        /\ tasks[r].calls = <<Call("list_files", tasks[r].file_url)>>
        /\ tasks[r].exit = "return"

====
